---------------------------- MODULE Spec2Model ----------------------------
(***************************************************************************)
(* A state-machine model of the PBCharacterMovement player movement        *)
(* component (UPBPlayerMovement) and of the parts of APBPlayerCharacter    *)
(* that drive it.                                                          *)
(*                                                                         *)
(* The component computes in floating point.  The model uses fixed point: *)
(*   - a velocity, speed or deceleration is an integer number of 0.05 u/s  *)
(*     (VelScale units per u/s); every speed constant of the constructor   *)
(*     is a whole number of these units;                                   *)
(*   - a time is an integer number of 0.1 ms (TimeScale units per second); *)
(*   - a friction or another dimensionless factor is an integer number of  *)
(*     hundredths (FricScale units per 1.0);                               *)
(*   - a length (capsule size, position) is an integer number of 0.001     *)
(*     units, a capsule size or height one of 1/16000 units.               *)
(* A product is divided back to its scale by integer division, truncating  *)
(* toward zero, where the code rounds to the nearest float.  Tolerances    *)
(* that are far below one model unit (KINDA_SMALL_NUMBER, SMALL_NUMBER,    *)
(* MIN_TICK_TIME) become the nearest representable value.                  *)
(***************************************************************************)
EXTENDS Integers, Sequences, FiniteSets, TLC

\* ------------------------------------------------------------------------
\* Scales of the fixed-point representation
\* ------------------------------------------------------------------------
VelScale == 20
TimeScale == 10000
FricScale == 100

\* ------------------------------------------------------------------------
\* Arithmetic helpers (FMath)
\* ------------------------------------------------------------------------
Abs(a) == IF a < 0 THEN -a ELSE a
Sgn(a) == IF a < 0 THEN -1 ELSE IF a > 0 THEN 1 ELSE 0
Max(a, b) == IF a >= b THEN a ELSE b
Min(a, b) == IF a <= b THEN a ELSE b
Clamp(a, lo, hi) == IF a < lo THEN lo ELSE IF a > hi THEN hi ELSE a
\* a / b rounded toward zero
DivT(a, b) == Sgn(a) * Sgn(b) * (Abs(a) \div Abs(b))

\* a local variable: F of the value of e, e computed once
With(e, F(_)) == CHOOSE out \in { F(v) : v \in {e} } : TRUE

RECURSIVE SqrtIter(_, _, _)
SqrtIter(n, lo, hi) ==
    IF lo >= hi THEN lo
    ELSE With((lo + hi + 1) \div 2,
              LAMBDA mid : IF mid * mid <= n THEN SqrtIter(n, mid, hi)
                                             ELSE SqrtIter(n, lo, mid - 1))
\* FMath::Sqrt, rounded down to a whole unit
Sqrt(n) == With(n, LAMBDA m : SqrtIter(m, 0, 46340))

\* ------------------------------------------------------------------------
\* FVector
\* ------------------------------------------------------------------------
Vec(a, b, c) == [x |-> a, y |-> b, z |-> c]
ZeroVector == Vec(0, 0, 0)
VAdd(u, v) == Vec(u.x + v.x, u.y + v.y, u.z + v.z)
VSub(u, v) == Vec(u.x - v.x, u.y - v.y, u.z - v.z)
\* u * (num / den), each component rounded toward zero
VScale(u, num, den) == Vec(DivT(u.x * num, den), DivT(u.y * num, den), DivT(u.z * num, den))
Dot(u, v) == u.x * v.x + u.y * v.y + u.z * v.z
SizeSquared(v) == Dot(v, v)
SizeSquared2D(v) == v.x * v.x + v.y * v.y
Size(v) == Sqrt(SizeSquared(v))
Size2D(v) == Sqrt(SizeSquared2D(v))
\* FVector::IsNearlyZero(Tolerance)
IsNearlyZero(v, tol) == Abs(v.x) <= tol /\ Abs(v.y) <= tol /\ Abs(v.z) <= tol


\* ------------------------------------------------------------------------
\* State
\* ------------------------------------------------------------------------
VARIABLES
    Velocity,       \* UMovementComponent::Velocity
    brk,            \* the last ApplyVelocityBraking call: arguments and sub-steps
    run,            \* the braking run so far: time braked, scenario still followed
    Acceleration,   \* UCharacterMovementComponent::Acceleration
    SurfaceFriction,        \* friction of the surface stood on, in hundredths
    MovementMode,           \* "Walking", "Falling", "Flying", "Swimming", "None"
    bBrakingWindowElapsed,  \* the braking window after landing has passed
    bCheatFlying,           \* noclip
    bOnLadder,
    MaxStepHeight,
    WalkableFloorZ,
    bIsSprinting,           \* APBPlayerCharacter::bIsSprinting
    bWantsToWalk,           \* APBPlayerCharacter::bWantsToWalk
    bIsCrouched,            \* ACharacter::bIsCrouched
    bCrouchFrameTolerated,
    calc,           \* the run of CalcVelocity ticks so far, and the last tick
    fall,           \* the last PhysFalling call: arguments, sub-steps, outcome
    CapsuleHalfHeight,      \* the capsule's unscaled half height
    LocationZ,              \* height of UpdatedComponent's location
    bWantsToCrouch,         \* UCharacterMovementComponent::bWantsToCrouch
    bIsInCrouchTransition,
    bCrouchMaintainsBaseLocation,
    cr,             \* the crouch transitions so far
    land,           \* the last two IsValidLandingSpot evaluations
    BrakingWindowTimeElapsed,
    bHasDeferredMovementMode,
    DeferredMovementMode,
    bSimulatingPhysics,     \* UpdatedComponent->IsSimulatingPhysics()
    tk,             \* the last TickComponent: what it started from, the tick
                    \* time since the last tick that ended off the ground
                    \* (up to BrakingWindow, -1 before the first one) and
                    \* whether a tick since then was one of a ragdoll
    WorldTime,              \* GetWorld()->GetTimeSeconds()
    LastJumpBoostTime,      \* APBPlayerCharacter::LastJumpBoostTime
    jp,             \* the last call about jumping: arguments and result
    bPressedJump,           \* ACharacter::bPressedJump
    bDeferJumpStop          \* APBPlayerCharacter::bDeferJumpStop

\* ------------------------------------------------------------------------
\* Engine tolerances, in model units
\* ------------------------------------------------------------------------
\* MIN_TICK_TIME (1e-6 s): the smallest positive time of the model
MIN_TICK_TIME == 1
\* KINDA_SMALL_NUMBER (1e-4): below one unit of velocity
KINDA_SMALL_NUMBER == 0
\* the tolerance of the early exit of ApplyVelocityBraking (0.1 u/s)
BrakingNearlyZero == 2

\* ------------------------------------------------------------------------
\* Constructor values (UPBPlayerMovement::UPBPlayerMovement)
\* ------------------------------------------------------------------------
MaxAcceleration == 17145
WalkSpeed == 5715
RunSpeed == 7238
SprintSpeed == 12192
GroundAccelerationMultiplier == 10
AirAccelerationMultiplier == 10
AirSpeedCap == 1143
GroundFriction == 400
BrakingFrictionFactor == 100
BrakingSubStepTime == 150
FallingLateralFriction == 0
BrakingDecelerationFalling == 0
BrakingDecelerationWalking == 3810
DefaultStepHeight == 34290
MinStepHeight == 10000
SpeedMultMin == (SprintSpeed * 17) \div 10
SpeedMultMax == (SprintSpeed * 25) \div 10
\* RunSpeed * (1. / 3.), to the model's 0.05 u/s
MaxWalkSpeedCrouched == RunSpeed \div 3
\* normals' Z components are in units of 0.0001
NormalScale == 10000
DefaultWalkableFloorZ == 7000
SlideWalkableFloorZ == 9848
AxisSpeedLimit == 133350
MaxSimulationTimeStep == 5000
MaxSimulationIterations == 1
\* UCharacterMovementComponent::MaxJumpApexAttemptsPerSimulation, the engine's value
MaxJumpApexAttemptsPerSimulation == 2
\* PlayerMovementConstants::DesiredGravity, in velocity units per second
GravityZ == -22860
\* ApexTimeMinimum (0.0001 s)
ApexTimeMinimum == 1
BounceMultiplier == 0
\* capsule sizes and heights in units of 1/16000 uu
\* InitCapsuleSize(30.48f, 68.58f), SetCrouchedHalfHeight(34.29f)
CapsuleRadius == 487680
StandingHalfHeight == 1097280
CrouchedHalfHeight == 548640
CrouchTime == 4000
CrouchJumpTime == 0
UncrouchTime == 2000
UncrouchJumpTime == 8000
\* SweepInflation and MinFloorDist, KINDA_SMALL_NUMBER * 10; MIN_FLOOR_DIST
SweepInflation == 16
MinFloorDist == 16
MIN_FLOOR_DIST == 30400
\* MAX_FLOOR_DIST (2.4) and SWEEP_EDGE_REJECT_DISTANCE (0.15), the same
MAX_FLOOR_DIST == 38400
SWEEP_EDGE_REJECT_DISTANCE == 2400
\* VerticalSlopeNormalZ (0.001), in units of a normal
VerticalSlopeNormalZ == 10
bUseFlatBaseForFloorChecks == TRUE
\* BrakingWindow, 15 ms
BrakingWindow == 150
JumpVelocity == 5334
JumpZVelocity == 6096
SlidingSurfaceFriction == 25

\* ------------------------------------------------------------------------
\* ApplyVelocityBraking
\* ------------------------------------------------------------------------
\* FMath::Clamp(BrakingSubStepTime, 1.0f / 75.0f, 1.0f / 20.0f)
MaxTimeStep == Clamp(BrakingSubStepTime, TimeScale \div 75, TimeScale \div 20)

\* the length of the next braking sub-step
BrakingDelta(RemainingTime) ==
    IF RemainingTime > MaxTimeStep THEN Min(MaxTimeStep, RemainingTime \div 2) ELSE RemainingTime

\* Velocity += (Friction * BrakingDeceleration * RevAccel) * Delta, with
\* RevAccel == -OldVel / |OldVel|
BrakingStepVelocity(vel, OldVel, Friction, BrakingDeceleration, Delta) ==
    LET drop == (Friction * BrakingDeceleration * Delta) \div (FricScale * TimeScale)
    IN  With(Size(OldVel), LAMBDA len : VSub(vel, VScale(OldVel, drop, len)))

\* "Don't reverse direction": the velocity a sub-step leaves, given the
\* velocity the friction produced
BrakingClampReverse_NoCheck(raw, OldVel) == raw
BrakingClampReverse(raw, OldVel) ==
    IF Dot(raw, OldVel) <= 0 THEN ZeroVector ELSE raw

\* one pass of the while loop on the loop state s; s.trace holds the velocity
\* after each sub-step, s.raw the velocity each sub-step computed before the
\* reversal test, s.stopped tells that the reversal test returned
BrakingSubStep(s) ==
    LET Delta == BrakingDelta(s.RemainingTime)
    IN  With(BrakingStepVelocity(s.vel, s.OldVel, s.Friction, s.BrakingDeceleration, Delta),
             LAMBDA r : [s EXCEPT !.RemainingTime = @ - Delta,
                                  !.vel = BrakingClampReverse(r, s.OldVel),
                                  !.trace = Append(@, BrakingClampReverse(r, s.OldVel)),
                                  !.raw = Append(@, r),
                                  !.stopped = Dot(r, s.OldVel) <= 0])

\* the while loop, from loop state s to the state it ends in
RECURSIVE BrakingLoop(_)
BrakingLoop(s) ==
    IF s.stopped \/ s.RemainingTime < MIN_TICK_TIME
    THEN s
    ELSE With(BrakingSubStep(s), LAMBDA n : BrakingLoop(n))

\* the early exit on a velocity that is nearly zero
BrakingSkipsVelocity_IsZero(vel) == vel = ZeroVector
BrakingSkipsVelocity_Wide(vel) == IsNearlyZero(vel, 10 * BrakingNearlyZero)
BrakingSkipsVelocity(vel) == IsNearlyZero(vel, BrakingNearlyZero)

\* the deceleration the loop uses: BrakingDeceleration raised to the speed
BrakingControl(BrakingDeceleration, Speed) == Max(0, Max(BrakingDeceleration, Speed))

\* ApplyVelocityBraking(DeltaTime, Friction, BrakingDeceleration) on velocity
\* vel; env.valid is HasValidData(), env.rootMotion is HasAnimRootMotion()
ApplyVelocityBraking(vel, DeltaTime, Friction, BrakingDeceleration, env) ==
    LET unchanged == [vel |-> vel, trace |-> << >>, raw |-> << >>, stopped |-> FALSE]
        Speed == Size2D(vel)
        FrictionFactor == Max(0, BrakingFrictionFactor)
        Fr == Max(0, (Friction * FrictionFactor) \div FricScale)
        Dec == BrakingControl(BrakingDeceleration, Speed)
    IN  IF BrakingSkipsVelocity(vel) \/ ~env.valid \/ env.rootMotion
           \/ DeltaTime < MIN_TICK_TIME
        THEN unchanged
        ELSE IF Fr = 0 \/ Dec = 0
        THEN unchanged
        ELSE With([vel |-> vel, OldVel |-> vel, Friction |-> Fr,
                   BrakingDeceleration |-> Dec, RemainingTime |-> DeltaTime,
                   trace |-> << >>, raw |-> << >>, stopped |-> FALSE], LAMBDA s :
             With(BrakingLoop(s), LAMBDA res :
                 [vel |-> IF ~res.stopped /\ IsNearlyZero(res.vel, KINDA_SMALL_NUMBER)
                          THEN ZeroVector ELSE res.vel,
                  trace |-> res.trace, raw |-> res.raw, stopped |-> res.stopped]))

\* ------------------------------------------------------------------------
\* GetMaxSpeed, CalcVelocity
\* ------------------------------------------------------------------------
IsCrouching == bIsCrouched
IsMovingOnGround == MovementMode = "Walking"
IsFalling == MovementMode = "Falling"

GetMaxSpeed ==
    IF bCheatFlying
    THEN ((IF bIsSprinting THEN SprintSpeed ELSE WalkSpeed) * 3) \div 2
    ELSE IF bIsSprinting
    THEN (IF IsCrouching /\ bCrouchFrameTolerated
          THEN (MaxWalkSpeedCrouched * 17) \div 10
          ELSE SprintSpeed)
    ELSE IF bWantsToWalk
    THEN WalkSpeed
    ELSE IF IsCrouching /\ bCrouchFrameTolerated
    THEN MaxWalkSpeedCrouched
    ELSE RunSpeed

\* FVector::GetClampedToMaxSize2D
GetClampedToMaxSize2D(v, MaxSize) ==
    IF MaxSize <= KINDA_SMALL_NUMBER
    THEN Vec(0, 0, v.z)
    ELSE IF SizeSquared2D(v) > MaxSize * MaxSize
    THEN With(Size2D(v), LAMBDA len : Vec(DivT(v.x * MaxSize, len), DivT(v.y * MaxSize, len), v.z))
    ELSE v

\* UCharacterMovementComponent::IsExceedingMaxSpeed: over by more than 1%
IsExceedingMaxSpeed(vel, MaxSpeed) ==
    SizeSquared(vel) > MaxSpeed * MaxSpeed + (MaxSpeed * MaxSpeed) \div 100

\* "Apply friction": braking on a ground move, with the velocity kept at
\* MaxSpeed when it started above it and braking took it below
CalcBraking(vel, acc, DeltaTime, Friction, BrakingDeceleration, MaxSpeed, env) ==
    With(ApplyVelocityBraking(vel, DeltaTime, (Friction * SurfaceFriction) \div FricScale,
                              BrakingDeceleration, env).vel,
         LAMBDA braked :
             IF /\ IsExceedingMaxSpeed(vel, MaxSpeed)
                /\ SizeSquared(braked) < MaxSpeed * MaxSpeed
                /\ Dot(acc, vel) > 0
             THEN VScale(vel, MaxSpeed, Size(vel))
             ELSE braked)

\* "Apply fluid friction"
CalcFluid(vel, DeltaTime, Friction) ==
    LET f == Min((Friction * DeltaTime) \div FricScale, TimeScale)
    IN  VScale(vel, TimeScale - f, TimeScale)

\* "Limit before", "Limit after"
LimitAxisSpeed(vel) ==
    Vec(Clamp(vel.x, -AxisSpeedLimit, AxisSpeedLimit),
        Clamp(vel.y, -AxisSpeedLimit, AxisSpeedLimit), vel.z)

\* the acceleration a tick adds: (Acceleration * AccelerationMultiplier *
\* SurfaceFriction * DeltaTime).GetClampedToMaxSize2D(AddSpeed)
CurrentAcceleration_NoClamp(acc, Mult, DeltaTime, AddSpeed) ==
    VScale(VScale(acc, Mult * SurfaceFriction, FricScale), DeltaTime, TimeScale)
CurrentAcceleration(acc, Mult, DeltaTime, AddSpeed) ==
    GetClampedToMaxSize2D(
        VScale(VScale(acc, Mult * SurfaceFriction, FricScale), DeltaTime, TimeScale),
        AddSpeed)

\* the speed the input may still add: the size of the (in the air capped)
\* acceleration less the veer, the velocity along the input direction
Veer(vel, acc) ==
    With(Size2D(acc),
         LAMBDA len : IF len = 0 THEN 0 ELSE DivT(vel.x * acc.x + vel.y * acc.y, len))
\* AddSpeed without the veer taken off
AddSpeed_NoVeer(vel, acc, bIsGroundMove) ==
    Size2D(IF bIsGroundMove THEN acc ELSE GetClampedToMaxSize2D(acc, AirSpeedCap))
AddSpeed(vel, acc, bIsGroundMove) ==
    Size2D(IF bIsGroundMove THEN acc ELSE GetClampedToMaxSize2D(acc, AirSpeedCap))
    - Veer(vel, acc)

\* "walk move": [vel, acc] after the input acceleration is applied
CalcWalkMove_Capped(vel, acc, DeltaTime, MaxSpeed, bIsGroundMove) ==
    With(GetClampedToMaxSize2D(acc, MaxSpeed), LAMBDA a :
    With(AddSpeed(vel, a, bIsGroundMove), LAMBDA add :
        [vel |-> GetClampedToMaxSize2D(
                     IF add > 0
                     THEN VAdd(vel, CurrentAcceleration(a, AirAccelerationMultiplier,
                                                        DeltaTime, add))
                     ELSE vel, MaxSpeed),
         acc |-> a]))
CalcWalkMove(vel, acc, DeltaTime, MaxSpeed, bIsGroundMove) ==
    IF IsNearlyZero(acc, KINDA_SMALL_NUMBER)
    THEN [vel |-> vel, acc |-> acc]
    ELSE LET Mult == IF bIsGroundMove THEN GroundAccelerationMultiplier
                                      ELSE AirAccelerationMultiplier
         IN  With(GetClampedToMaxSize2D(acc, MaxSpeed), LAMBDA a :
             With(AddSpeed(vel, a, bIsGroundMove), LAMBDA add :
                 [vel |-> IF add > 0
                          THEN VAdd(vel, CurrentAcceleration(a, Mult, DeltaTime, add))
                          ELSE vel,
                  acc |-> a]))

\* FVector::GetClampedToSize(c, c): the vector at length c, zero staying zero
GetClampedToSize(v, c) ==
    IF Size(v) = 0 THEN ZeroVector ELSE VScale(v, c, Size(v))

\* "no clip": the velocity follows the input relative to the view; env.look
\* is the control rotation's vector and env.forward the actor's forward
\* vector, both along an axis
NoClipVelocity(acc, env) ==
    IF IsNearlyZero(acc, KINDA_SMALL_NUMBER)
    THEN ZeroVector
    ELSE LET LookVec == env.look
             LookVec2D == Vec(env.forward.x, env.forward.y, 0)
             PerpendicularAccel == VScale(LookVec2D, Dot(LookVec2D, acc), 1)
             TangentialAccel == VSub(acc, PerpendicularAccel)
             \* CosineAngle2D(LookVec) is DirNum / Size2D(acc)
             DirNum == IF Size2D(LookVec) = 0 \/ Size2D(acc) = 0 THEN 0
                       ELSE acc.x * LookVec.x + acc.y * LookVec.y
             along == IF DirNum = 0 THEN ZeroVector
                      ELSE VScale(LookVec, DirNum * Size2D(PerpendicularAccel), Size2D(acc))
             NoClipAccelClamp == IF bIsSprinting THEN 2 * MaxAcceleration ELSE MaxAcceleration
         IN  GetClampedToSize(VAdd(along, TangentialAccel), NoClipAccelClamp)

SpeedMultiplier_NoClamp(vel) ==
    LET range == SpeedMultMax - SpeedMultMin
    IN  With(Size2D(vel) - SpeedMultMin, LAMBDA num :
        With((((num * num) \div range) * 1000) \div range, LAMBDA sq :
            IF IsFalling THEN sq
            ELSE Max(((FricScale - SurfaceFriction) * sq) \div FricScale, 0)))

\* "Dynamic step height": how far the step height and the walkable slope are
\* scaled down at speed, in thousandths
SpeedMultiplier(vel) ==
    LET range == SpeedMultMax - SpeedMultMin
    IN  With(Clamp(Size2D(vel) - SpeedMultMin, 0, range), LAMBDA num :
        With((((num * num) \div range) * 1000) \div range, LAMBDA sq :
            IF IsFalling THEN sq
            ELSE Max(((FricScale - SurfaceFriction) * sq) \div FricScale, 0)))

\* [MaxStepHeight, WalkableFloorZ] for the velocity a tick ends with
StepHeightFor(vel) ==
    IF bOnLadder \/ SizeSquared2D(vel) <= MaxWalkSpeedCrouched * MaxWalkSpeedCrouched
    THEN [MaxStepHeight |-> DefaultStepHeight, WalkableFloorZ |-> DefaultWalkableFloorZ]
    ELSE With(SpeedMultiplier(vel), LAMBDA mult :
             [MaxStepHeight |->
                  DefaultStepHeight + DivT((MinStepHeight - DefaultStepHeight) * mult, 1000),
              WalkableFloorZ |->
                  DefaultWalkableFloorZ
                  + DivT((SlideWalkableFloorZ - DefaultWalkableFloorZ) * mult, 1000)])

\* the branches of CalcVelocity with the ladder branch taken as a walk move
CalcMove_NoLadder(vel, acc, DeltaTime, MaxSpeed, bIsGroundMove, env) ==
    IF bCheatFlying
    THEN [vel |-> NoClipVelocity(acc, env), acc |-> acc]
    ELSE CalcWalkMove(vel, acc, DeltaTime, MaxSpeed, bIsGroundMove)

\* the "no clip", "ladder movement" and "walk move" branches of CalcVelocity:
\* [vel, acc] after the branch the mode selects
CalcMove(vel, acc, DeltaTime, MaxSpeed, bIsGroundMove, env) ==
    IF bCheatFlying
    THEN [vel |-> NoClipVelocity(acc, env), acc |-> acc]
    ELSE IF bOnLadder
    THEN [vel |-> vel, acc |-> acc]
    ELSE CalcWalkMove(vel, acc, DeltaTime, MaxSpeed, bIsGroundMove)

\* CalcVelocity(DeltaTime, Friction, bFluid, BrakingDeceleration) on velocity
\* vel and acceleration acc: the velocity, acceleration, step height and
\* walkable slope it leaves.  env.proxy tells a simulated proxy that is not
\* simulating root motion; the input is not analog and bForceMaxAccel is off
\* bIsGroundMove of CalcVelocity
IsGroundMove_NoWindow == IsMovingOnGround
IsGroundMove == IsMovingOnGround /\ bBrakingWindowElapsed

CalcVelocity(vel, acc, DeltaTime, Friction, bFluid, BrakingDeceleration, env) ==
    IF ~env.valid \/ env.rootMotion \/ DeltaTime < MIN_TICK_TIME \/ env.proxy
    THEN [vel |-> vel, acc |-> acc,
          MaxStepHeight |-> MaxStepHeight, WalkableFloorZ |-> WalkableFloorZ]
    ELSE LET Fr == Max(0, Friction)
             MaxSpeed == GetMaxSpeed
             bIsGroundMove == IsGroundMove
         IN  With(IF bIsGroundMove
                  THEN CalcBraking(vel, acc, DeltaTime, Fr, BrakingDeceleration, MaxSpeed, env)
                  ELSE vel, LAMBDA v1 :
             With(LimitAxisSpeed(IF bFluid THEN CalcFluid(v1, DeltaTime, Fr) ELSE v1),
                  LAMBDA v3 :
             With(CalcMove(v3, acc, DeltaTime, MaxSpeed, bIsGroundMove, env),
                  LAMBDA mv :
             With(LimitAxisSpeed(mv.vel), LAMBDA v4 :
             With(StepHeightFor(v4), LAMBDA step :
                 [vel |-> v4, acc |-> mv.acc, MaxStepHeight |-> step.MaxStepHeight,
                  WalkableFloorZ |-> step.WalkableFloorZ])))))

\* PlayerMovementPrivate::GetFrictionFromHit; mat is the friction of the
\* floor's physical material in hundredths, NoMaterial when it has none
NoMaterial == -1
GetFrictionFromHit(mat) ==
    IF mat /= NoMaterial THEN Min(FricScale, (mat * 125) \div 100) ELSE FricScale

\* UpdateSurfaceFriction with the airborne branch reduced to two outcomes:
\* 0.25 when sliding and 1.0 otherwise
UpdateSurfaceFriction_Reset(vel, bIsSliding, floorWalkable, mat) ==
    IF ~IsFalling /\ floorWalkable
    THEN GetFrictionFromHit(mat)
    ELSE IF bIsSliding
    THEN SlidingSurfaceFriction
    ELSE FricScale

\* UpdateSurfaceFriction(bIsSliding); floorWalkable is
\* CurrentFloor.IsWalkableFloor(), mat the material the floor trace hits
UpdateSurfaceFriction(vel, bIsSliding, floorWalkable, mat) ==
    IF ~IsFalling /\ floorWalkable
    THEN GetFrictionFromHit(mat)
    ELSE IF bOnLadder \/ vel.z > JumpVelocity \/ vel.z <= 0 \/ bCheatFlying
    THEN FricScale
    ELSE IF bIsSliding
    THEN SlidingSurfaceFriction
    ELSE SurfaceFriction

\* ------------------------------------------------------------------------
\* PhysFalling
\* ------------------------------------------------------------------------
\* UCharacterMovementComponent::GetSimulationTimeStep
GetSimulationTimeStep(RemainingTime, Iterations) ==
    Max(MIN_TICK_TIME,
        IF RemainingTime > MaxSimulationTimeStep /\ Iterations < MaxSimulationIterations
        THEN Min(MaxSimulationTimeStep, RemainingTime \div 2)
        ELSE RemainingTime)

\* NewFallVelocity: gravity for DeltaTime, the fall speed limited
NewFallVelocity(InitialVelocity, DeltaTime) ==
    Vec(InitialVelocity.x, InitialVelocity.y,
        Clamp(InitialVelocity.z + (IF DeltaTime > 0 THEN DivT(GravityZ * DeltaTime, TimeScale)
                                                    ELSE 0),
              -AxisSpeedLimit, AxisSpeedLimit))

\* "Apply input": CalcVelocity on the horizontal velocity with the fall
\* acceleration, Velocity.Z and Acceleration restored afterwards
FallCalcVelocity(vel, FallAcceleration, TimeTick, env) ==
    IF env.rootMotion
    THEN [vel |-> vel, MaxStepHeight |-> MaxStepHeight, WalkableFloorZ |-> WalkableFloorZ]
    ELSE With(CalcVelocity(Vec(vel.x, vel.y, 0), FallAcceleration, TimeTick,
                           FallingLateralFriction, FALSE, BrakingDecelerationFalling, env),
              LAMBDA cv : [vel |-> Vec(cv.vel.x, cv.vel.y, vel.z),
                           MaxStepHeight |-> cv.MaxStepHeight,
                           WalkableFloorZ |-> cv.WalkableFloorZ])

\* "sub-step to exactly reach the apex": whether the sub-step that takes
\* OldVelocity to vel in TimeTick is split at the apex
TimeToApex(OldVelocity, vel, TimeTick) ==
    (OldVelocity.z * TimeTick) \div (OldVelocity.z - vel.z)
SplitsAtApex_NoLimit(OldVelocity, vel, TimeTick, NumJumpApexAttempts) ==
    /\ OldVelocity.z > 0 /\ vel.z <= 0
    /\ TimeToApex(OldVelocity, vel, TimeTick) >= ApexTimeMinimum
    /\ TimeToApex(OldVelocity, vel, TimeTick) < TimeTick
SplitsAtApex_NoMinimum(OldVelocity, vel, TimeTick, NumJumpApexAttempts) ==
    /\ OldVelocity.z > 0 /\ vel.z <= 0
    /\ NumJumpApexAttempts < MaxJumpApexAttemptsPerSimulation
    /\ TimeToApex(OldVelocity, vel, TimeTick) < TimeTick
SplitsAtApex(OldVelocity, vel, TimeTick, NumJumpApexAttempts) ==
    /\ OldVelocity.z > 0 /\ vel.z <= 0
    /\ NumJumpApexAttempts < MaxJumpApexAttemptsPerSimulation
    /\ TimeToApex(OldVelocity, vel, TimeTick) >= ApexTimeMinimum
    /\ TimeToApex(OldVelocity, vel, TimeTick) < TimeTick

\* ApexVelocity: OldVelocity + DerivedAccel * TimeToApex, its Z set to 0
ApexVelocity(OldVelocity, vel, TimeTick) ==
    With(TimeToApex(OldVelocity, vel, TimeTick), LAMBDA t :
        Vec(OldVelocity.x + DivT((vel.x - OldVelocity.x) * t, TimeTick),
            OldVelocity.y + DivT((vel.y - OldVelocity.y) * t, TimeTick), 0))

SlideVelocity_Bounce(vel, n) ==
    With(DivT(Dot(vel, n), NormalScale), LAMBDA along :
    With(FricScale + (FricScale - SurfaceFriction), LAMBDA BounceCoefficient :
        Vec(vel.x - DivT(DivT(along * n.x, NormalScale) * BounceCoefficient, FricScale),
            vel.y - DivT(DivT(along * n.y, NormalScale) * BounceCoefficient, FricScale),
            vel.z - DivT(DivT(along * n.z, NormalScale) * BounceCoefficient, FricScale))))
\* HandleSlopeBoosting on a move at velocity vel: the velocity of the slide,
\* vel less BounceCoefficient times its part along the normal n
SlideVelocity(vel, n) ==
    With(DivT(Dot(vel, n), NormalScale), LAMBDA along :
    With(FricScale + (BounceMultiplier * (FricScale - SurfaceFriction)) \div FricScale,
         LAMBDA BounceCoefficient :
        Vec(vel.x - DivT(DivT(along * n.x, NormalScale) * BounceCoefficient, FricScale),
            vel.y - DivT(DivT(along * n.y, NormalScale) * BounceCoefficient, FricScale),
            vel.z - DivT(DivT(along * n.z, NormalScale) * BounceCoefficient, FricScale))))

\* GetFallingLateralAcceleration with AirControl 1 and no air control boost:
\* the horizontal input acceleration, limited to MaxAcceleration
GetFallingLateralAcceleration(acc, env) ==
    IF env.rootMotion THEN Vec(acc.x, acc.y, 0)
    ELSE GetClampedToMaxSize2D(Vec(acc.x, acc.y, 0), MaxAcceleration)

\* What the world answers to the move of one sub-step.  kind: "none" no
\* blocking hit, "invalid" the component is gone after the move, "swim" the
\* move entered water, "land" a valid landing spot, "abort" HandleImpact left
\* the falling mode, "deflect" a hit that is no landing spot.  time: Hit.Time
\* in tenths, normal: the hit normal in NormalScale units.  second: what the
\* move along the deflection meets: "none", "land", "abort", "slide" (a second
\* wall with normal normal2), "ditch" (the second slide ends in ProcessLanded
\* with no time left).  The perch-radius ditch escape (random velocity) and
\* the jump force time are outside the model; bApplyGravityWhileJumping is
\* the engine's default, so gravity acts for the whole sub-step
NoHit == [kind |-> "none", time |-> 10, normal |-> ZeroVector,
          second |-> "none", time2 |-> 10, normal2 |-> ZeroVector]
Hit(kind, time, normal) ==
    [kind |-> kind, time |-> time, normal |-> normal,
     second |-> "none", time2 |-> 10, normal2 |-> ZeroVector]
Hit2(time, normal, second, time2, normal2) ==
    [kind |-> "deflect", time |-> time, normal |-> normal,
     second |-> second, time2 |-> time2, normal2 |-> normal2]

GetPerchRadiusThreshold_On(env) == Max(1, env.PerchRadiusThreshold)
\* GetPerchRadiusThreshold: PerchRadiusThreshold, never below 0
GetPerchRadiusThreshold(env) == Max(0, env.PerchRadiusThreshold)

\* the perch recovery: the velocity after the random nudge out of a virtual
\* ditch; rand holds the two draws of RandomStream.FRand() in tenths
PerchNudge(vel, rand) ==
    Vec(vel.x + DivT((GetMaxSpeed \div 4) * (rand[1] - 5), 10),
        vel.y + DivT((GetMaxSpeed \div 4) * (rand[2] - 5), 10),
        Max(JumpZVelocity \div 4, VelScale))

\* the response to the hit of a sub-step whose move took TimeTick and left
\* velocity vel: the velocity, the time handed back and how the loop goes on.
\* A second hit "perch" is one after which the capsule has hardly moved, the
\* move was not cut short and the first hit was on a walkable normal
FallHitResponse(vel, TimeTick, hit, env) ==
    LET Sub == (TimeTick * (10 - hit.time)) \div 10
        Sub2 == (Sub * (10 - hit.time2)) \div 10
        keep(v, nv) == IF env.rootMotion THEN Vec(v.x, v.y, nv.z) ELSE nv
    IN  CASE hit.kind = "none" ->
                [vel |-> vel, refund |-> 0, end |-> "go", clear |-> FALSE, nudged |-> FALSE]
          [] hit.kind = "leave" ->
                [vel |-> vel, refund |-> 0, end |-> "go", clear |-> FALSE, nudged |-> FALSE]
          [] hit.kind = "invalid" ->
                [vel |-> vel, refund |-> 0, end |-> "invalid", clear |-> FALSE, nudged |-> FALSE]
          [] hit.kind = "swim" ->
                [vel |-> vel, refund |-> Sub, end |-> "swim", clear |-> FALSE, nudged |-> FALSE]
          [] hit.kind = "land" ->
                [vel |-> vel, refund |-> Sub, end |-> "land", clear |-> FALSE, nudged |-> FALSE]
          [] hit.kind = "abort" ->
                [vel |-> vel, refund |-> 0, end |-> "abort", clear |-> FALSE, nudged |-> FALSE]
          [] OTHER ->
             With(IF Sub > KINDA_SMALL_NUMBER
                  THEN keep(vel, SlideVelocity(vel, hit.normal)) ELSE vel, LAMBDA v1 :
                IF Sub <= KINDA_SMALL_NUMBER \/ hit.second = "none"
                THEN [vel |-> v1, refund |-> 0, end |-> "go", clear |-> FALSE, nudged |-> FALSE]
                ELSE IF hit.second = "land"
                THEN [vel |-> v1, refund |-> Sub2, end |-> "land", clear |-> FALSE,
                      nudged |-> FALSE]
                ELSE IF hit.second = "abort"
                THEN [vel |-> v1, refund |-> 0, end |-> "abort", clear |-> FALSE, nudged |-> FALSE]
                ELSE With(IF Sub2 > KINDA_SMALL_NUMBER
                          THEN keep(v1, SlideVelocity(v1, hit.normal2)) ELSE v1,
                          LAMBDA v2 :
                     IF hit.second = "perch" /\ GetPerchRadiusThreshold(env) > 0
                     THEN [vel |-> PerchNudge(v2, env.rand), refund |-> 0, end |-> "go",
                           clear |-> FALSE, nudged |-> TRUE]
                     ELSE [vel |-> v2, refund |-> 0,
                           end |-> IF hit.second = "ditch" THEN "land" ELSE "go",
                           clear |-> hit.second = "ditch", nudged |-> FALSE]))

\* one pass of the loop of PhysFalling on the loop state f
\* the movement mode after the moves of a sub-step: ProcessLanded sets
\* walking, StartSwimming swimming, the impact handler that ended the fall
\* is taken to have switched the movement off, and an event of a move that
\* hits nothing ("leave") to have set flying
ModeAfterFall(mode, kind, end) ==
    CASE end = "land" -> "Walking"
      [] end = "swim" -> "Swimming"
      [] end = "abort" -> "None"
      [] kind = "leave" -> "Flying"
      [] OTHER -> mode

FallSubStep(f, FallAcceleration, env) ==
    With(f.Iterations + 1, LAMBDA it :
    With(GetSimulationTimeStep(f.RemainingTime, it), LAMBDA TimeTick0 :
    With(FallCalcVelocity(f.vel, FallAcceleration, TimeTick0, env), LAMBDA cv :
    With(NewFallVelocity(cv.vel, TimeTick0), LAMBDA grav :
    With(SplitsAtApex(f.vel, grav, TimeTick0, f.NumJumpApexAttempts), LAMBDA split :
    With(IF split THEN TimeToApex(f.vel, grav, TimeTick0) ELSE TimeTick0, LAMBDA TimeTick :
    With(IF split THEN ApexVelocity(f.vel, grav, TimeTick0) ELSE grav, LAMBDA v :
    With(IF f.hits = << >> THEN NoHit ELSE Head(f.hits), LAMBDA hit :
    With(FallHitResponse(v, TimeTick, hit, env), LAMBDA r :
        [vel |-> IF r.end = "go" /\ SizeSquared2D(r.vel) <= KINDA_SMALL_NUMBER
                 THEN Vec(0, 0, r.vel.z) ELSE r.vel,
         RemainingTime |-> IF r.clear THEN 0
                           ELSE f.RemainingTime - TimeTick + r.refund,
         Iterations |-> IF split THEN it - 1 ELSE it,
         NumJumpApexAttempts |-> f.NumJumpApexAttempts + (IF split THEN 1 ELSE 0),
         hits |-> IF f.hits = << >> THEN << >> ELSE Tail(f.hits),
         end |-> r.end, mode |-> ModeAfterFall(f.mode, hit.kind, r.end),
         MaxStepHeight |-> cv.MaxStepHeight, WalkableFloorZ |-> cv.WalkableFloorZ,
         trace |-> Append(f.trace,
                     [OldVelocity |-> f.vel, input |-> cv.vel, gravity |-> grav,
                      apex |-> v, vel |-> r.vel, before |-> f.RemainingTime,
                      TimeTick0 |-> TimeTick0, TimeTick |-> TimeTick, split |-> split,
                      attempts |-> f.NumJumpApexAttempts, hit |-> hit.kind,
                      after |-> IF r.clear THEN 0
                                ELSE f.RemainingTime - TimeTick + r.refund,
                      end |-> r.end, nudged |-> r.nudged,
                      mode |-> ModeAfterFall(f.mode, hit.kind, r.end)])])))))))))

RECURSIVE FallLoop(_, _, _)
FallLoop(f, FallAcceleration, env) ==
    IF f.end /= "go" \/ f.RemainingTime < MIN_TICK_TIME
       \/ f.Iterations >= MaxSimulationIterations
    THEN f
    ELSE With(FallSubStep(f, FallAcceleration, env), LAMBDA n :
              FallLoop(n, FallAcceleration, env))

\* PhysFalling(DeltaTime, Iterations) on velocity vel with input acceleration
\* acc; hits are the world's answers to the moves, in order
PhysFalling(vel, acc, DeltaTime, Iterations, hits, env) ==
    With([vel |-> vel, RemainingTime |-> DeltaTime, Iterations |-> Iterations,
          NumJumpApexAttempts |-> 0, hits |-> hits, end |-> "go", mode |-> MovementMode,
          MaxStepHeight |-> MaxStepHeight, WalkableFloorZ |-> WalkableFloorZ,
          trace |-> << >>], LAMBDA f :
        IF DeltaTime < MIN_TICK_TIME THEN f
        ELSE With(GetFallingLateralAcceleration(acc, env), LAMBDA fa :
                  FallLoop(f, fa, env)))

\* ------------------------------------------------------------------------
\* Crouching: DoCrouchResize, DoUnCrouchResize, UpdateCrouching
\* ------------------------------------------------------------------------
\* the crouch progress (alpha) is counted in units of 1 / FullCrouchDiff
FullCrouchDiff == StandingHalfHeight - CrouchedHalfHeight
AlphaOne == FullCrouchDiff

IsWalking == MovementMode = "Walking"
CanCrouchInCurrentState == IsFalling \/ IsMovingOnGround

\* the alpha a transition step adds and whether it completes the transition
TargetAlphaStep_NoClamp(CurrentAlpha, Rate, DeltaTime, bInstant) ==
    [diff |-> IF bInstant THEN AlphaOne ELSE DivT(AlphaOne * DeltaTime, Rate),
     done |-> bInstant \/ CurrentAlpha + DivT(AlphaOne * DeltaTime, Rate) >= AlphaOne]
TargetAlphaStep(CurrentAlpha, Rate, DeltaTime, bInstant) ==
    With(IF bInstant THEN AlphaOne ELSE CurrentAlpha + DivT(AlphaOne * DeltaTime, Rate),
         LAMBDA TargetAlpha :
             IF TargetAlpha >= AlphaOne
             THEN [diff |-> AlphaOne - CurrentAlpha, done |-> TRUE]
             ELSE [diff |-> DivT(AlphaOne * DeltaTime, Rate), done |-> FALSE])

\* the crouch state c: h the capsule half height, z the location's height,
\* crouched bIsCrouched, transition bIsInCrouchTransition, tolerated
\* bCrouchFrameTolerated, op the resize that changed it last or "blocked"
\* when the last uncrouch found the larger capsule blocked.  env: valid is
\* HasValidData(), blocked the answer of the sweep or of the first overlap
\* test of the step, blockedFull of the full-height test before a partial
\* uncrouch, blocked2 of the retried overlap test, floorDist
\* CurrentFloor.FloorDist (0 when the floor is no blocking hit)

\* DoCrouchResize(TargetTime, DeltaTime) of a character that is not a client
\* simulation; the scale of the capsule is 1
DoCrouchResize(c, TargetTime, DeltaTime, env) ==
    IF ~env.valid \/ ~CanCrouchInCurrentState
    THEN [c EXCEPT !.transition = FALSE]
    ELSE IF c.h = CrouchedHalfHeight
    THEN [c EXCEPT !.crouched = TRUE, !.transition = FALSE]
    ELSE With(AlphaOne - (c.h - CrouchedHalfHeight), LAMBDA CurrentAlpha :
         With(TargetAlphaStep(CurrentAlpha, CrouchTime, DeltaTime, TargetTime = 0),
              LAMBDA t :
         With(Max(Max(0, CapsuleRadius),
                  StandingHalfHeight - (CurrentAlpha + t.diff)),
              LAMBDA ClampedCrouchedHalfHeight :
             [c EXCEPT !.h = ClampedCrouchedHalfHeight,
                       !.z = IF env.blocked THEN @
                             ELSE IF bCrouchMaintainsBaseLocation THEN @ - t.diff
                             ELSE @ + t.diff,
                       !.crouched = IF t.done THEN TRUE ELSE @,
                       !.transition = IF t.done THEN FALSE ELSE @,
                       !.op = "crouch"])))

\* where the uncrouch step that grows the capsule by adjust puts the
\* location: [z, encroached]
UncrouchLocation(c, adjust, env) ==
    IF bCrouchMaintainsBaseLocation
    THEN With(c.z + adjust + SweepInflation, LAMBDA StandingZ :
             IF env.blocked /\ IsMovingOnGround /\ env.floorDist > MinFloorDist
             THEN [z |-> IF env.blocked2 THEN c.z
                         ELSE StandingZ - (env.floorDist - MinFloorDist),
                   encroached |-> env.blocked2]
             ELSE [z |-> IF env.blocked THEN c.z ELSE StandingZ,
                   encroached |-> env.blocked])
    ELSE IF env.blocked /\ adjust > 0
    THEN [z |-> IF env.blocked2 THEN c.z
                ELSE c.z - 2 * CapsuleRadius + (c.h + adjust + SweepInflation)
                     + SweepInflation + MIN_FLOOR_DIST \div 2,
          encroached |-> env.blocked2]
    ELSE [z |-> c.z, encroached |-> env.blocked]

\* DoUnCrouchResize(TargetTime, DeltaTime) of a character that is not a
\* client simulation
DoUnCrouchResize(c, TargetTime, DeltaTime, env) ==
    IF ~env.valid
    THEN [c EXCEPT !.transition = FALSE]
    ELSE IF c.h = StandingHalfHeight
    THEN [c EXCEPT !.crouched = FALSE, !.tolerated = FALSE, !.transition = FALSE]
    ELSE IF TargetTime /= 0 /\ bCrouchMaintainsBaseLocation /\ env.blockedFull
    THEN [c EXCEPT !.op = "blocked"]
    ELSE With(AlphaOne - (StandingHalfHeight - c.h), LAMBDA CurrentAlpha :
         With(TargetAlphaStep(CurrentAlpha, TargetTime, DeltaTime, TargetTime = 0),
              LAMBDA t :
         With(UncrouchLocation(c, t.diff, env), LAMBDA loc :
             IF loc.encroached
             THEN [c EXCEPT !.transition = IF t.done THEN FALSE ELSE @,
                            !.op = "blocked"]
             ELSE [c EXCEPT !.h = @ + t.diff,
                            !.z = loc.z,
                            !.crouched = FALSE,
                            !.tolerated = FALSE,
                            !.transition = IF t.done THEN FALSE ELSE @,
                            !.op = "uncrouch"])))

\* UpdateCrouching(DeltaTime, bOnlyUncrouch) of a character that is no
\* simulated proxy; cr.CrouchJumpTime is the CrouchJumpTime the component is
\* configured with
UpdateCrouching(c, DeltaTime, bOnlyUncrouch, wants, env) ==
    IF bCheatFlying \/ ~c.transition
    THEN c
    ELSE IF (~bOnlyUncrouch /\ ~wants) \/ (bOnlyUncrouch /\ ~CanCrouchInCurrentState)
    THEN DoUnCrouchResize(c, IF IsWalking THEN UncrouchTime ELSE UncrouchJumpTime,
                          DeltaTime, env)
    ELSE IF ~bOnlyUncrouch
    THEN IF bOnLadder THEN [c EXCEPT !.transition = FALSE]
         ELSE DoCrouchResize(c, IF IsWalking THEN CrouchTime ELSE cr.CrouchJumpTime,
                             DeltaTime, env)
    ELSE c

\* the crouch requests of UCharacterMovementComponent's
\* UpdateCharacterStateBeforeMovement (after is FALSE) and
\* UpdateCharacterStateAfterMovement (after is TRUE): UnCrouch() and Crouch()
\* start the transition
CrouchRequests(c, wants, after) ==
    IF c.crouched /\ ((~after /\ ~wants) \/ ~CanCrouchInCurrentState)
    THEN [c EXCEPT !.transition = TRUE]
    ELSE IF ~after /\ ~c.crouched /\ wants /\ CanCrouchInCurrentState
    THEN [c EXCEPT !.transition = TRUE]
    ELSE c

\* the crouching of UpdateCharacterStateBeforeMovement and of
\* UpdateCharacterStateAfterMovement
CrouchBeforeMovement(c, DeltaTime, wants, env) ==
    UpdateCrouching(CrouchRequests(c, wants, FALSE), DeltaTime, FALSE, wants, env)
CrouchAfterMovement(c, DeltaTime, wants, env) ==
    UpdateCrouching(CrouchRequests(c, wants, TRUE), DeltaTime, TRUE, wants, env)


\* ------------------------------------------------------------------------
\* IsValidLandingSpot
\* ------------------------------------------------------------------------
\* a hit as IsValidLandingSpot reads it: the normals in units of NormalScale,
\* the heights in units of 1/16000 uu, edge the horizontal distance from
\* Hit.Location to Hit.ImpactPoint
LandingHit(blocking, penetrating, normal, impactNormal, locationZ, impactZ, edge) ==
    [bBlockingHit |-> blocking, bStartPenetrating |-> penetrating, Normal |-> normal,
     ImpactNormal |-> impactNormal, LocationZ |-> locationZ, ImpactPointZ |-> impactZ,
     edge |-> edge]

\* UCharacterMovementComponent::IsWalkable, no walkable slope override
\* (a normal below KINDA_SMALL_NUMBER is one at or below 0 units)
IsWalkable(hit) ==
    /\ hit.bBlockingHit /\ ~hit.bStartPenetrating
    /\ ~(hit.ImpactNormal.z <= KINDA_SMALL_NUMBER)
    /\ ~(hit.ImpactNormal.z < WalkableFloorZ)

\* UCharacterMovementComponent::IsWithinEdgeTolerance
IsWithinEdgeTolerance(edge, Radius) ==
    edge < Max(SWEEP_EDGE_REJECT_DISTANCE + 1, Radius - SWEEP_EDGE_REJECT_DISTANCE)

\* the hit is above the base of the capsule; land.bUseFlatBaseForFloorChecks
\* is the bUseFlatBaseForFloorChecks the component is configured with
AboveLowerHemisphere_Hemisphere(hit, PawnRadius, PawnHalfHeight) ==
    hit.ImpactPointZ >= hit.LocationZ - PawnHalfHeight + PawnRadius
AboveLowerHemisphere(hit, PawnRadius, PawnHalfHeight) ==
    IF land.bUseFlatBaseForFloorChecks
    THEN /\ hit.ImpactNormal.z < WalkableFloorZ \/ hit.ImpactNormal.z = NormalScale
         /\ hit.ImpactPointZ > hit.LocationZ - PawnHalfHeight + MAX_FLOOR_DIST
    ELSE hit.ImpactPointZ >= hit.LocationZ - PawnHalfHeight + PawnRadius

\* the normal HandleSlopeBoosting slides along
SlopeBoostNormal(hit) ==
    IF Abs(hit.ImpactNormal.z) <= VerticalSlopeNormalZ
       \/ Abs(hit.ImpactNormal.z) = NormalScale
    THEN hit.Normal ELSE hit.ImpactNormal

\* the slope bug fix: moving up the slope of the hit, and the deflection off
\* it after half a step of gravity goes up faster than JumpVelocity
TooFastToLand(hit, DeltaSeconds) ==
    /\ hit.Normal.z < NormalScale
    /\ Dot(Velocity, hit.Normal) < 0
    /\ \E d \in {SlideVelocity(Vec(Velocity.x, Velocity.y,
                     Velocity.z + DivT(DivT(GravityZ, 2) * DeltaSeconds, TimeScale)),
                     SlopeBoostNormal(hit))} : d.z > JumpVelocity

\* IsValidLandingSpot(CapsuleLocation, Hit) of a falling character, not on a
\* ladder and not in noclip; floorWalkable: FindFloor finds a walkable floor
\* at CapsuleLocation; DeltaSeconds: the delta seconds of the world
IsValidLandingSpot(hit, floorWalkable, DeltaSeconds) ==
    /\ hit.bBlockingHit
    /\ IF ~hit.bStartPenetrating
       THEN /\ IsWalkable(hit)
            /\ ~AboveLowerHemisphere(hit, CapsuleRadius, CapsuleHalfHeight)
            /\ IsWithinEdgeTolerance(hit.edge, CapsuleRadius)
       ELSE ~(hit.Normal.z <= KINDA_SMALL_NUMBER)
    /\ floorWalkable
    /\ ~TooFastToLand(hit, DeltaSeconds)

\* ------------------------------------------------------------------------
\* TickComponent: the braking window
\* ------------------------------------------------------------------------
\* the braking window after a tick of DeltaTime that was not skipped:
\* [flag, elapsed] for bBrakingWindowElapsed and BrakingWindowTimeElapsed,
\* the time counted in 0.1 ms
BrakingWindowUpdate_NoReset(onGround, flag, elapsed, DeltaTime) ==
    With(IF onGround /\ ~flag THEN elapsed + DeltaTime ELSE elapsed, LAMBDA e :
        IF onGround /\ e >= BrakingWindow
        THEN [flag |-> TRUE, elapsed |-> 0]
        ELSE [flag |-> flag, elapsed |-> e])
\* BrakingWindowUpdate with the window elapsing only past BrakingWindow
BrakingWindowUpdate_Late(onGround, flag, elapsed, DeltaTime) ==
    IF onGround
    THEN With(IF ~flag THEN elapsed + DeltaTime ELSE elapsed, LAMBDA e :
             IF e > BrakingWindow
             THEN [flag |-> TRUE, elapsed |-> 0]
             ELSE [flag |-> flag, elapsed |-> e])
    ELSE [flag |-> FALSE, elapsed |-> 0]
BrakingWindowUpdate(onGround, flag, elapsed, DeltaTime) ==
    IF onGround
    THEN With(IF ~flag THEN elapsed + DeltaTime ELSE elapsed, LAMBDA e :
             IF e >= BrakingWindow
             THEN [flag |-> TRUE, elapsed |-> 0]
             ELSE [flag |-> flag, elapsed |-> e])
    ELSE [flag |-> FALSE, elapsed |-> 0]

\* ModeOfTick with the deferred mode applied on every tick after a request
ModeOfTick_Reapply(moved) ==
    IF DeferredMovementMode /= "None" THEN DeferredMovementMode ELSE moved

\* the movement mode TickComponent goes on with: the mode the movement of
\* Super::TickComponent ended in, or the deferred mode when one is set
ModeOfTick(moved) ==
    IF bHasDeferredMovementMode THEN DeferredMovementMode ELSE moved

\* ------------------------------------------------------------------------
\* Braking: the calls of ApplyVelocityBraking
\* ------------------------------------------------------------------------
calcVars == <<Acceleration, SurfaceFriction, MovementMode, bBrakingWindowElapsed,
              bCheatFlying, bOnLadder, MaxStepHeight, WalkableFloorZ,
              bIsSprinting, bWantsToWalk, bIsCrouched, bCrouchFrameTolerated, calc, fall>>
crouchVars == <<CapsuleHalfHeight, LocationZ, bWantsToCrouch, bIsInCrouchTransition,
                bCrouchMaintainsBaseLocation, cr>>
tickVars == <<BrakingWindowTimeElapsed, bHasDeferredMovementMode, DeferredMovementMode,
              bSimulatingPhysics, tk>>
jumpVars == <<WorldTime, LastJumpBoostTime, jp, bPressedJump, bDeferJumpStop>>
restVars == <<crouchVars, land, tickVars, jumpVars>>
vars == <<Velocity, brk, run, calcVars, restVars>>

NoCalc == [ticks |-> 0, posTicks |-> 0, dir |-> ZeroVector, pre |-> ZeroVector,
           sf |-> 0, dt |-> 0, skipped |-> FALSE, acc |-> ZeroVector]
NoFall == [n |-> 0, pre |-> ZeroVector, acc |-> ZeroVector, dt |-> 0, sf |-> 0,
           trace |-> << >>, end |-> "go", RemainingTime |-> 0]

\* no crouch requested yet, no landing spot tested, no tick made
NoCrouchRun == [started |-> FALSE, ticks |-> 0, clean |-> TRUE, base0 |-> 0,
                reached |-> FALSE, steps |-> 0, blocked |-> FALSE, h0 |-> 0, z0 |-> 0,
                dt |-> 0, h1 |-> 0, op1 |-> "none", op2 |-> "none",
                CrouchJumpTime |-> CrouchJumpTime]
NoLand == [n |-> 0, cur |-> << >>, prev |-> << >>,
           bUseFlatBaseForFloorChecks |-> bUseFlatBaseForFloorChecks]
NoTick == [n |-> 0, fresh |-> FALSE, physics |-> FALSE, dt |-> 0, elapsed |-> 0,
           flag |-> FALSE, moved |-> "None", pending |-> FALSE, sinceLanding |-> -1,
           ragdoll |-> FALSE]
\* no call about jumping yet, no jump boost taken
NoJump == [op |-> "none", ret |-> FALSE, pre |-> ZeroVector, mode |-> "None",
           cheat |-> FALSE, can |-> FALSE, plane |-> "none", c |-> << >>,
           attempt |-> FALSE, at |-> 0, gate |-> FALSE, changed |-> FALSE,
           bunnyhop |-> FALSE, boostAt |-> -1, prevBoostAt |-> -1, cap |-> 0,
           n |-> 0, stops |-> 0, pressed |-> FALSE, deferred |-> FALSE,
           falling |-> FALSE, ignored |-> FALSE, autohop |-> TRUE]

\* standing on a floor at height 0, as constructed
InitRestVars ==
    /\ CapsuleHalfHeight = StandingHalfHeight
    /\ LocationZ = StandingHalfHeight + MIN_FLOOR_DIST
    /\ bWantsToCrouch = FALSE
    /\ bIsInCrouchTransition = FALSE
    /\ bCrouchMaintainsBaseLocation = TRUE
    /\ cr = NoCrouchRun
    /\ land = NoLand
    /\ BrakingWindowTimeElapsed = 0
    /\ bHasDeferredMovementMode = FALSE
    /\ DeferredMovementMode = "None"
    /\ bSimulatingPhysics = FALSE
    /\ tk = NoTick
    /\ WorldTime = 0
    /\ LastJumpBoostTime = 0
    /\ jp = NoJump
    /\ bPressedJump = FALSE
    /\ bDeferJumpStop = FALSE

\* the constructor's values, on the ground
InitCalcVars ==
    /\ Acceleration = ZeroVector
    /\ SurfaceFriction = FricScale
    /\ MovementMode = "Walking"
    /\ bBrakingWindowElapsed = TRUE
    /\ bCheatFlying = FALSE
    /\ bOnLadder = FALSE
    /\ MaxStepHeight = DefaultStepHeight
    /\ WalkableFloorZ = DefaultWalkableFloorZ
    /\ bIsSprinting = FALSE
    /\ bWantsToWalk = FALSE
    /\ bIsCrouched = FALSE
    /\ bCrouchFrameTolerated = FALSE
    /\ calc = NoCalc
    /\ fall = NoFall

\* the number of recorded calls in a behaviour of SpecBrake
MaxBrakeCalls == 2

NoBrake == [called |-> FALSE, n |-> 0, pre |-> ZeroVector, dt |-> 0, fr |-> 0, dec |-> 0,
            env |-> [valid |-> TRUE, rootMotion |-> FALSE],
            trace |-> << >>, raw |-> << >>]
NoRun == [elapsed |-> 0, fr |-> 0, dec |-> 0, scenario |-> FALSE]

\* the braking scenario: 300 u/s on a floor of friction 0.95, for one second
ScenarioVelocity == Vec(300 * VelScale, 0, 0)
ScenarioFriction == (GroundFriction * GetFrictionFromHit(95)) \div FricScale
ScenarioTime == TimeScale

RunEnv == [valid |-> TRUE, rootMotion |-> FALSE]

InitBrake ==
    /\ Velocity \in { ScenarioVelocity, Vec(1200, 1600, 0), Vec(-3000, 0, 60), Vec(0, 0, -400),
                      Vec(3, 0, 0), Vec(0, 2, 0), Vec(1, 0, 0), ZeroVector }
    /\ brk = NoBrake
    /\ run = NoRun
    /\ InitCalcVars
    /\ InitRestVars

\* one call of ApplyVelocityBraking, recorded in brk
BrakeCall(dt, fr, dec, env) ==
    \E res \in {ApplyVelocityBraking(Velocity, dt, fr, dec, env)} :
        /\ brk.n < MaxBrakeCalls
        /\ Velocity' = res.vel
        /\ brk' = [called |-> TRUE, n |-> brk.n + 1, pre |-> Velocity, dt |-> dt,
                   fr |-> fr, dec |-> dec, env |-> env,
                   trace |-> res.trace, raw |-> res.raw]
        /\ UNCHANGED <<run, calcVars, restVars>>

BrakeAny ==
    \E dt \in {0, 167, 2500}, fr \in {0, (GroundFriction * 95) \div FricScale},
       dec \in {0, BrakingDecelerationWalking},
       env \in { RunEnv, [valid |-> FALSE, rootMotion |-> FALSE],
                 [valid |-> TRUE, rootMotion |-> TRUE] } :
        BrakeCall(dt, fr, dec, env)

SpecBrake == InitBrake /\ [][BrakeAny]_vars

\* a braking run: the same positive Friction and BrakingDeceleration in every
\* call, a positive DeltaTime, a character with valid data and no root motion
\* run.elapsed beyond the scenario's second is not told apart

InitBrakeRun ==
    /\ Velocity \in { ScenarioVelocity, Vec(1200, 1600, 0), Vec(146, 0, 0), Vec(0, 0, -400),
                      Vec(1, 0, 0), ZeroVector }
    /\ brk = NoBrake
    /\ \E fr \in {GroundFriction \div 4, ScenarioFriction}, dec \in {BrakingDecelerationWalking} :
          run = [elapsed |-> 0, fr |-> fr, dec |-> dec,
                 scenario |-> /\ Velocity = ScenarioVelocity
                              /\ fr = ScenarioFriction
                              /\ dec = BrakingDecelerationWalking]
    /\ InitCalcVars
    /\ InitRestVars

BrakeRun ==
    \E dt \in {100, 2500} :
        \E res \in {ApplyVelocityBraking(Velocity, dt, run.fr, run.dec, RunEnv)} :
            /\ Velocity' = res.vel
            /\ run' = [run EXCEPT !.elapsed = Min(run.elapsed + dt, ScenarioTime + 1)]
            /\ UNCHANGED <<brk, calcVars, restVars>>

\* the movement component is ticked every frame: the braking call recurs
SpecBrakeRun == InitBrakeRun /\ [][BrakeRun]_vars /\ WF_vars(BrakeRun)

\* ------------------------------------------------------------------------
\* Walking: ticks of CalcVelocity on the ground under full input
\* ------------------------------------------------------------------------
\* the ticks on a surface with friction within which full input reaches the
\* maximum speed, at the tick lengths and surface frictions of the run; the
\* ticks of a run are counted up to this number
TicksToMaxSpeed == 6

FloorMaterials == {NoMaterial, 0}
GroundEnv == [valid |-> TRUE, rootMotion |-> FALSE, proxy |-> FALSE,
              look |-> Vec(1, 0, 0), forward |-> Vec(1, 0, 0),
              PerchRadiusThreshold |-> 0, rand |-> <<0, 0>>]

\* UpdateCharacterStateBeforeMovement, UpdateCharacterStateAfterMovement
LimitFallSpeed(vel) == Vec(vel.x, vel.y, Clamp(vel.z, -AxisSpeedLimit, AxisSpeedLimit))

\* at rest on the ground, the braking window elapsed
InitGround ==
    /\ Velocity = ZeroVector
    /\ brk = NoBrake
    /\ run = NoRun
    /\ Acceleration = ZeroVector
    /\ \E mat \in FloorMaterials : SurfaceFriction = GetFrictionFromHit(mat)
    /\ MovementMode = "Walking"
    /\ bBrakingWindowElapsed = TRUE
    /\ bCheatFlying = FALSE
    /\ bOnLadder = FALSE
    /\ MaxStepHeight = DefaultStepHeight
    /\ WalkableFloorZ = DefaultWalkableFloorZ
    /\ \E mode \in { <<TRUE, FALSE>>, <<FALSE, TRUE>>, <<FALSE, FALSE>> } :
          bIsSprinting = mode[1] /\ bWantsToWalk = mode[2]
    /\ bIsCrouched = FALSE
    /\ bCrouchFrameTolerated = FALSE
    /\ \E dir \in { Vec(1, 0, 0), Vec(0, -1, 0) } : calc = [NoCalc EXCEPT !.dir = dir]
    /\ fall = NoFall
    /\ InitRestVars

\* one tick of walking under full input along calc.dir: the velocity update
\* of the move, then the surface friction of the floor the move ends on
GroundTick ==
    \E dt \in {250, 1000}, mat \in FloorMaterials :
        \E res \in {CalcVelocity(LimitFallSpeed(Velocity), VScale(calc.dir, MaxAcceleration, 1),
                                 dt, GroundFriction, FALSE, BrakingDecelerationWalking,
                                 GroundEnv)} :
            /\ Velocity' = LimitFallSpeed(res.vel)
            /\ Acceleration' = res.acc
            /\ MaxStepHeight' = res.MaxStepHeight
            /\ WalkableFloorZ' = res.WalkableFloorZ
            /\ SurfaceFriction' = UpdateSurfaceFriction(LimitFallSpeed(res.vel), FALSE, TRUE, mat)
            /\ calc' = [calc EXCEPT !.ticks = Min(@ + 1, TicksToMaxSpeed),
                                    !.posTicks = IF SurfaceFriction > 0
                                                 THEN Min(@ + 1, TicksToMaxSpeed) ELSE @,
                                    !.pre = Velocity, !.sf = SurfaceFriction, !.dt = dt]
            /\ UNCHANGED <<brk, run, MovementMode, bBrakingWindowElapsed, bCheatFlying,
                           bOnLadder, bIsSprinting, bWantsToWalk, bIsCrouched,
                           bCrouchFrameTolerated, fall, restVars>>

SpecGround == InitGround /\ [][GroundTick]_vars

\* ------------------------------------------------------------------------
\* CalcVelocity called on the ground and in the air, at any speed
\* ------------------------------------------------------------------------
MaxCalcCalls == 2
\* at rest, 100 u/s, MaxWalkSpeedCrouched, 600 u/s, 1250 u/s, 1400 u/s, 1600 u/s

InitCalc ==
    /\ \E v \in { ZeroVector, Vec(2000, 0, 0), Vec(MaxWalkSpeedCrouched, 0, 0),
                  Vec(12000, 0, 0), Vec(24000, 7000, 0), Vec(0, -28000, 0),
                  Vec(32000, 0, 0) } : Velocity = v
    /\ brk = NoBrake
    /\ run = NoRun
    /\ Acceleration = ZeroVector
    /\ \E sf \in {0, 25, FricScale} : SurfaceFriction = sf
    /\ MovementMode \in {"Walking", "Falling"}
    /\ bBrakingWindowElapsed \in BOOLEAN
    /\ bCheatFlying = FALSE
    /\ bOnLadder \in BOOLEAN
    /\ MaxStepHeight = DefaultStepHeight
    /\ WalkableFloorZ = DefaultWalkableFloorZ
    /\ bIsSprinting = FALSE
    /\ bWantsToWalk = FALSE
    /\ bIsCrouched = FALSE
    /\ bCrouchFrameTolerated = FALSE
    /\ calc = NoCalc
    /\ fall = NoFall
    /\ InitRestVars

\* one call of CalcVelocity, with the friction and braking deceleration that
\* PhysWalking and PhysFalling pass
CalcCall ==
    /\ calc.ticks < MaxCalcCalls
    /\ \E dt \in {0, 100, 150},
          acc \in { ZeroVector, Vec(MaxAcceleration, 0, 0), Vec(-10287, 13716, 0) },
          env \in { GroundEnv, [GroundEnv EXCEPT !.proxy = TRUE] } :
       \E res \in {IF IsMovingOnGround
                   THEN CalcVelocity(Velocity, acc, dt, GroundFriction, FALSE,
                                     BrakingDecelerationWalking, env)
                   ELSE CalcVelocity(Velocity, acc, dt, FallingLateralFriction, FALSE,
                                     BrakingDecelerationFalling, env)} :
            /\ Velocity' = res.vel
            /\ Acceleration' = res.acc
            /\ MaxStepHeight' = res.MaxStepHeight
            /\ WalkableFloorZ' = res.WalkableFloorZ
            /\ calc' = [calc EXCEPT !.ticks = @ + 1, !.pre = Velocity,
                                    !.sf = SurfaceFriction, !.dt = dt, !.acc = acc,
                                    !.skipped = (dt < MIN_TICK_TIME \/ env.proxy)]
            /\ UNCHANGED <<brk, run, SurfaceFriction, MovementMode, bBrakingWindowElapsed,
                           bCheatFlying, bOnLadder, bIsSprinting, bWantsToWalk,
                           bIsCrouched, bCrouchFrameTolerated, fall, restVars>>

SpecCalc == InitCalc /\ [][CalcCall]_vars

\* ------------------------------------------------------------------------
\* Air strafing: ticks of PhysFalling under input perpendicular to the velocity
\* ------------------------------------------------------------------------
MaxAirTicks == 5
WallNormal == Vec(-NormalScale, 0, 0)

\* full input at a right angle to the horizontal velocity, side 1 or -1
PerpendicularInput(vel, side) ==
    With(Size2D(vel), LAMBDA len :
        Vec(DivT(-side * vel.y * MaxAcceleration, len),
            DivT(side * vel.x * MaxAcceleration, len), 0))

\* in the air right after DoJump or after walking off a ledge: the surface
\* friction is still that of the floor left
InitAir ==
    /\ \E v \in { Vec(1000, 0, JumpZVelocity), Vec(300, 400, 0) } : Velocity = v
    /\ brk = NoBrake
    /\ run = NoRun
    /\ Acceleration = ZeroVector
    /\ \E mat \in FloorMaterials : SurfaceFriction = GetFrictionFromHit(mat)
    /\ MovementMode = "Falling"
    /\ bBrakingWindowElapsed = TRUE
    /\ bCheatFlying = FALSE
    /\ bOnLadder = FALSE
    /\ MaxStepHeight = DefaultStepHeight
    /\ WalkableFloorZ = DefaultWalkableFloorZ
    /\ bIsSprinting = FALSE
    /\ bWantsToWalk = FALSE
    /\ \E c \in BOOLEAN : bIsCrouched = c /\ bCrouchFrameTolerated = c
    /\ \E side \in {1, -1} : calc = [NoCalc EXCEPT !.dir = Vec(side, 0, 0)]
    /\ fall = NoFall
    /\ InitRestVars

\* one tick in the air: UpdateCharacterStateBeforeMovement, PhysFalling with
\* the input at a right angle to the velocity, UpdateCharacterStateAfterMovement
AirStrafeTick ==
    /\ IsFalling
    /\ fall.n < MaxAirTicks
    /\ SizeSquared2D(Velocity) > 0
    /\ \E dt \in {100, 500}, hit \in { NoHit, Hit("deflect", 5, WallNormal) } :
       \E v0 \in {LimitFallSpeed(Velocity)} :
       \E acc \in {PerpendicularInput(v0, calc.dir.x)} :
       \E res \in {PhysFalling(v0, acc, dt, 0, <<hit>>, GroundEnv)} :
       \E v1 \in {LimitFallSpeed(res.vel)} :
            /\ Velocity' = v1
            /\ Acceleration' = acc
            /\ MaxStepHeight' = res.MaxStepHeight
            /\ WalkableFloorZ' = res.WalkableFloorZ
            /\ SurfaceFriction' = UpdateSurfaceFriction(v1, FALSE, FALSE, NoMaterial)
            /\ fall' = [n |-> fall.n + 1, pre |-> Velocity, acc |-> acc, dt |-> dt,
                        sf |-> SurfaceFriction, trace |-> res.trace, end |-> res.end,
                        RemainingTime |-> res.RemainingTime]
            /\ UNCHANGED <<brk, run, MovementMode, bBrakingWindowElapsed, bCheatFlying,
                           bOnLadder, bIsSprinting, bWantsToWalk, bIsCrouched,
                           bCrouchFrameTolerated, calc, restVars>>

SpecAir == InitAir /\ [][AirStrafeTick]_vars

\* ------------------------------------------------------------------------
\* Falling: calls of PhysFalling with the world answering the moves
\* ------------------------------------------------------------------------
MaxFallCalls == 2
FallInputs == { ZeroVector, Vec(MaxAcceleration, 0, 0) }
\* a slope too steep to land on, a floor, a ceiling
SlopeNormal == Vec(-8000, 0, 6000)
FloorNormal == Vec(0, 0, NormalScale)
FallHitSeqs ==
    { << >>,
      << Hit("land", 5, FloorNormal) >>,
      << Hit("swim", 5, ZeroVector) >>,
      << Hit("invalid", 10, ZeroVector) >>,
      << Hit("leave", 10, ZeroVector) >>,
      << Hit("abort", 3, WallNormal) >>,
      << Hit("deflect", 5, WallNormal) >>,
      << Hit("deflect", 0, Vec(0, 0, -NormalScale)) >>,
      << Hit("deflect", 5, SlopeNormal), Hit("deflect", 5, SlopeNormal) >>,
      << Hit2(5, WallNormal, "land", 5, FloorNormal) >>,
      << Hit2(5, WallNormal, "abort", 5, WallNormal) >>,
      << Hit2(5, SlopeNormal, "slide", 5, Vec(0, -NormalScale, 0)) >>,
      << Hit2(5, SlopeNormal, "ditch", 0, Vec(8000, 0, 6000)) >> }

InitFalling ==
    /\ \E v \in { Vec(1000, 0, z) : z \in {JumpZVelocity, 1143, 600, 3, 2, 0, -400} } : Velocity = v
    /\ brk = NoBrake
    /\ run = NoRun
    /\ Acceleration = ZeroVector
    /\ SurfaceFriction = FricScale
    /\ MovementMode = "Falling"
    /\ bBrakingWindowElapsed = TRUE
    /\ bCheatFlying = FALSE
    /\ bOnLadder = FALSE
    /\ MaxStepHeight = DefaultStepHeight
    /\ WalkableFloorZ = DefaultWalkableFloorZ
    /\ bIsSprinting = FALSE
    /\ bWantsToWalk = FALSE
    /\ bIsCrouched = FALSE
    /\ bCrouchFrameTolerated = FALSE
    /\ calc = NoCalc
    /\ fall = NoFall
    /\ InitRestVars

\* one tick in the air.  The move that uses the time left after a landing
\* belongs to the walking mode and is not taken here; fall.RemainingTime is
\* the time handed to it
FallTick ==
    /\ IsFalling
    /\ fall.n < MaxFallCalls
    /\ \E dt \in {0, 500, 1000}, acc \in FallInputs, hits \in FallHitSeqs,
          mat \in FloorMaterials :
       \E res \in {PhysFalling(LimitFallSpeed(Velocity), acc, dt, 0, hits, GroundEnv)} :
       \E v1 \in {LimitFallSpeed(res.vel)} :
            /\ res.end = "land" \/ mat = NoMaterial
            /\ Velocity' = v1
            /\ Acceleration' = acc
            /\ MaxStepHeight' = res.MaxStepHeight
            /\ WalkableFloorZ' = res.WalkableFloorZ
            /\ MovementMode' = res.mode
            /\ SurfaceFriction' = IF res.end = "land" THEN GetFrictionFromHit(mat)
                                  ELSE UpdateSurfaceFriction(v1, FALSE, FALSE, NoMaterial)
            /\ fall' = [n |-> fall.n + 1, pre |-> Velocity, acc |-> acc, dt |-> dt,
                        sf |-> SurfaceFriction, trace |-> res.trace, end |-> res.end,
                        RemainingTime |-> res.RemainingTime]
            /\ UNCHANGED <<brk, run, bBrakingWindowElapsed, bCheatFlying,
                           bOnLadder, bIsSprinting, bWantsToWalk, bIsCrouched,
                           bCrouchFrameTolerated, calc, restVars>>

SpecFalling == InitFalling /\ [][FallTick]_vars

\* ------------------------------------------------------------------------
\* Crouching: crouch requests and ticks
\* ------------------------------------------------------------------------
MaxCrouchTicks == 8
ClearEnv == [valid |-> TRUE, blocked |-> FALSE, blockedFull |-> FALSE,
             blocked2 |-> FALSE, floorDist |-> MIN_FLOOR_DIST]

\* standing on the ground, where crouching keeps the base of the capsule in
\* place, or standing tall in the air, where it does not
InitCrouch ==
    /\ Velocity = ZeroVector
    /\ brk = NoBrake
    /\ run = NoRun
    /\ Acceleration = ZeroVector
    /\ SurfaceFriction = FricScale
    /\ \E mode \in {"Walking", "Falling"} :
          /\ MovementMode = mode
          /\ bCrouchMaintainsBaseLocation = (mode = "Walking")
    /\ bBrakingWindowElapsed = TRUE
    /\ bCheatFlying = FALSE
    /\ bOnLadder = FALSE
    /\ MaxStepHeight = DefaultStepHeight
    /\ WalkableFloorZ = DefaultWalkableFloorZ
    /\ bIsSprinting = FALSE
    /\ bWantsToWalk = FALSE
    /\ bIsCrouched = FALSE
    /\ bCrouchFrameTolerated = FALSE
    /\ calc = NoCalc
    /\ fall = NoFall
    /\ CapsuleHalfHeight = StandingHalfHeight
    /\ LocationZ = StandingHalfHeight + MIN_FLOOR_DIST
    /\ bWantsToCrouch = FALSE
    /\ bIsInCrouchTransition = FALSE
    /\ \E t \in {CrouchJumpTime, 2000} : cr = [NoCrouchRun EXCEPT !.CrouchJumpTime = t]
    /\ land = NoLand
    /\ BrakingWindowTimeElapsed = 0
    /\ bHasDeferredMovementMode = FALSE
    /\ DeferredMovementMode = "None"
    /\ bSimulatingPhysics = FALSE
    /\ tk = NoTick
    /\ WorldTime = 0
    /\ LastJumpBoostTime = 0
    /\ jp = NoJump
    /\ bPressedJump = FALSE
    /\ bDeferJumpStop = FALSE

crouchFixed == <<Velocity, brk, run, Acceleration, SurfaceFriction, MovementMode,
                 bBrakingWindowElapsed, bCheatFlying, bOnLadder, MaxStepHeight,
                 WalkableFloorZ, bIsSprinting, bWantsToWalk, calc, fall,
                 bCrouchMaintainsBaseLocation, land, tickVars,
                 jumpVars>>

\* the player presses crouch, once, and releases it
SetWantsToCrouch ==
    /\ bWantsToCrouch \/ ~cr.started
    /\ bWantsToCrouch' = ~bWantsToCrouch
    /\ cr' = IF ~bWantsToCrouch
             THEN [NoCrouchRun EXCEPT !.started = TRUE,
                                      !.base0 = LocationZ - CapsuleHalfHeight,
                                      !.CrouchJumpTime = cr.CrouchJumpTime]
             ELSE cr
    /\ UNCHANGED <<crouchFixed, CapsuleHalfHeight, LocationZ, bIsInCrouchTransition,
                   bIsCrouched, bCrouchFrameTolerated>>

\* the crouching of one tick, and bCrouchFrameTolerated as TickComponent
\* leaves it
CrouchTick ==
    /\ cr.started
    /\ cr.ticks < MaxCrouchTicks
    /\ \E dt \in {1000, 1500},
          env \in { ClearEnv,
                    [ClearEnv EXCEPT !.valid = FALSE],
                    [ClearEnv EXCEPT !.blockedFull = TRUE],
                    [ClearEnv EXCEPT !.blocked = TRUE],
                    [ClearEnv EXCEPT !.blocked = TRUE, !.blocked2 = TRUE],
                    [ClearEnv EXCEPT !.blocked = TRUE, !.floorDist = 0] } :
       \E mid \in {CrouchBeforeMovement([h |-> CapsuleHalfHeight, z |-> LocationZ,
                                        crouched |-> bIsCrouched,
                                        transition |-> bIsInCrouchTransition,
                                        tolerated |-> bCrouchFrameTolerated,
                                        op |-> "none"],
                                       dt, bWantsToCrouch, env)} :
       \E c \in {CrouchAfterMovement([mid EXCEPT !.op = "none"], dt, bWantsToCrouch,
                                     env)} :
       \E op \in {IF c.op /= "none" THEN c.op ELSE mid.op} :
            /\ CapsuleHalfHeight' = c.h
            /\ LocationZ' = c.z
            /\ bIsCrouched' = c.crouched
            /\ bIsInCrouchTransition' = c.transition
            /\ bCrouchFrameTolerated' = c.crouched
            /\ cr' = [cr EXCEPT !.ticks = @ + 1,
                                !.clean = @ /\ env = ClearEnv,
                                !.reached = @ \/ c.h = CrouchedHalfHeight,
                                !.steps = IF op = "uncrouch" THEN @ + 1 ELSE @,
                                !.blocked = (op = "blocked"),
                                !.h0 = CapsuleHalfHeight, !.z0 = LocationZ,
                                !.dt = dt, !.h1 = mid.h, !.op1 = mid.op,
                                !.op2 = c.op]
            /\ UNCHANGED <<crouchFixed, bWantsToCrouch>>

SpecCrouch == InitCrouch /\ [][SetWantsToCrouch \/ CrouchTick]_vars

\* ------------------------------------------------------------------------
\* Landing: IsValidLandingSpot evaluated while falling
\* ------------------------------------------------------------------------
MaxLandingMoves == 1
MaxLandingChecks == 2
\* a slope of 37 degrees facing the move
RampNormal == Vec(-6000, 0, 8000)
\* the capsule of a hit, resting on a floor at height 0
HitLocationZ == StandingHalfHeight + MIN_FLOOR_DIST
\* a ramp, a flat ledge 6.25 above the base, the rim of the capsule on the
\* flat floor, a ramp the capsule starts in
LandingHits ==
    { LandingHit(TRUE, FALSE, RampNormal, RampNormal, HitLocationZ, 0, 0),
      LandingHit(TRUE, FALSE, FloorNormal, FloorNormal, HitLocationZ, 100000, 0),
      LandingHit(TRUE, FALSE, FloorNormal, FloorNormal, HitLocationZ, 0,
                 CapsuleRadius - 1000),
      LandingHit(TRUE, TRUE, RampNormal, RampNormal, HitLocationZ, 0, 0) }

\* falling off a frictionless floor or ramp, the surface friction still that
\* of the floor left, standing or crouched
InitLanding ==
    /\ \E v \in { Vec(6000, 0, 0), Vec(12000, 0, -1000) } : Velocity = v
    /\ brk = NoBrake
    /\ run = NoRun
    /\ Acceleration = ZeroVector
    /\ SurfaceFriction = GetFrictionFromHit(0)
    /\ MovementMode = "Falling"
    /\ bBrakingWindowElapsed = TRUE
    /\ bCheatFlying = FALSE
    /\ bOnLadder = FALSE
    /\ MaxStepHeight = DefaultStepHeight
    /\ WalkableFloorZ = DefaultWalkableFloorZ
    /\ bIsSprinting = FALSE
    /\ bWantsToWalk = FALSE
    /\ \E c \in BOOLEAN :
          /\ bIsCrouched = c /\ bCrouchFrameTolerated = c /\ bWantsToCrouch = c
          /\ CapsuleHalfHeight = IF c THEN CrouchedHalfHeight ELSE StandingHalfHeight
    /\ calc = NoCalc
    /\ fall = NoFall
    /\ LocationZ = HitLocationZ
    /\ bIsInCrouchTransition = FALSE
    /\ bCrouchMaintainsBaseLocation = FALSE
    /\ cr = NoCrouchRun
    /\ land = NoLand
    /\ BrakingWindowTimeElapsed = 0
    /\ bHasDeferredMovementMode = FALSE
    /\ DeferredMovementMode = "None"
    /\ bSimulatingPhysics = FALSE
    /\ tk = NoTick
    /\ WorldTime = 0
    /\ LastJumpBoostTime = 0
    /\ jp = NoJump
    /\ bPressedJump = FALSE
    /\ bDeferJumpStop = FALSE

landingFixed == <<brk, run, MovementMode, bBrakingWindowElapsed, bCheatFlying, bOnLadder,
                  bIsSprinting, bWantsToWalk, bIsCrouched, bCrouchFrameTolerated, calc,
                  crouchVars, tickVars, jumpVars>>

\* PhysFalling of one tick that hits nothing
LandingMove ==
    /\ fall.n < MaxLandingMoves
    /\ \E dt \in {500}, acc \in { ZeroVector, Vec(-MaxAcceleration, 0, 0) } :
       \E res \in {PhysFalling(Velocity, acc, dt, 0, <<NoHit>>, GroundEnv)} :
            /\ Velocity' = res.vel
            /\ Acceleration' = acc
            /\ MaxStepHeight' = res.MaxStepHeight
            /\ WalkableFloorZ' = res.WalkableFloorZ
            /\ fall' = [fall EXCEPT !.n = @ + 1, !.pre = Velocity, !.acc = acc,
                                     !.dt = dt, !.sf = SurfaceFriction]
            /\ UNCHANGED <<landingFixed, SurfaceFriction, land>>

\* UpdateCharacterStateAfterMovement of a character that holds its crouch
LandingAfterMovement ==
    /\ \E v1 \in {LimitFallSpeed(Velocity)} :
            /\ Velocity' = v1
            /\ SurfaceFriction' = UpdateSurfaceFriction(v1, FALSE, FALSE, NoMaterial)
    /\ UNCHANGED <<landingFixed, Acceleration, MaxStepHeight, WalkableFloorZ, fall, land>>

\* one evaluation of IsValidLandingSpot
LandingCheck ==
    /\ land.n < MaxLandingChecks
    /\ \E hit \in LandingHits, floorWalkable \in BOOLEAN, ds \in {100, 500} :
            land' = [n |-> land.n + 1,
                     cur |-> [hit |-> hit, size |-> <<CapsuleRadius, CapsuleHalfHeight>>,
                              floor |-> floorWalkable, ds |-> ds, vel |-> Velocity,
                              wfz |-> WalkableFloorZ, sf |-> SurfaceFriction,
                              result |-> IsValidLandingSpot(hit, floorWalkable, ds)],
                     prev |-> land.cur,
                     bUseFlatBaseForFloorChecks |-> land.bUseFlatBaseForFloorChecks]
    /\ UNCHANGED <<landingFixed, Velocity, Acceleration, SurfaceFriction, MaxStepHeight,
                   WalkableFloorZ, fall>>

SpecLanding == InitLanding /\ [][LandingMove \/ LandingAfterMovement \/ LandingCheck]_vars

\* ------------------------------------------------------------------------
\* Two agents in lockstep: the same state, inputs and collision responses,
\* each with its own RandomStream
\* ------------------------------------------------------------------------
MaxTwinTicks == 2
\* the draws of FRand(), in tenths
RandDraws == { <<0, 5>>, <<9, 2>> }

\* what a tick in the air leaves of an agent: PhysFalling's result res, and
\* the braking window as TickComponent leaves it
TwinOutcome(res, dt) ==
    With(BrakingWindowUpdate(res.mode = "Walking", bBrakingWindowElapsed,
                             BrakingWindowTimeElapsed, dt), LAMBDA w :
        [vel |-> LimitFallSpeed(res.vel), mode |-> res.mode,
         h |-> CapsuleHalfHeight, flag |-> w.flag, elapsed |-> w.elapsed,
         MaxStepHeight |-> res.MaxStepHeight, WalkableFloorZ |-> res.WalkableFloorZ,
         sf |-> IF res.end = "land" THEN GetFrictionFromHit(NoMaterial)
                ELSE UpdateSurfaceFriction(LimitFallSpeed(res.vel), FALSE, FALSE,
                                           NoMaterial),
         nudged |-> \E i \in DOMAIN res.trace : res.trace[i].nudged])

InitTwin ==
    /\ \E v \in { Vec(1000, 0, JumpZVelocity), Vec(3000, 0, -400) } : Velocity = v
    /\ brk = NoBrake
    /\ run = NoRun
    /\ Acceleration = ZeroVector
    /\ SurfaceFriction = FricScale
    /\ MovementMode = "Falling"
    /\ bBrakingWindowElapsed = FALSE
    /\ bCheatFlying = FALSE
    /\ bOnLadder = FALSE
    /\ MaxStepHeight = DefaultStepHeight
    /\ WalkableFloorZ = DefaultWalkableFloorZ
    /\ bIsSprinting = FALSE
    /\ bWantsToWalk = FALSE
    /\ bIsCrouched = FALSE
    /\ bCrouchFrameTolerated = FALSE
    /\ calc = NoCalc
    \* PerchRadiusThreshold: the engine's default, and 15
    /\ \E p \in {0, 240000} :
          fall = [n |-> 0, PerchRadiusThreshold |-> p, nudged |-> FALSE, hits |-> << >>,
                  twin |-> << >>]
    /\ InitRestVars

\* one tick in the air of the two agents: the first agent's tick is made on
\* the state, the second agent's outcome is kept in fall.twin.  The agents
\* are in the same state before the tick
TwinTick ==
    /\ IsFalling
    /\ fall.n < MaxTwinTicks
    /\ fall.n > 0 => fall.twin = [fall.twin EXCEPT !.vel = Velocity]
    /\ \E dt \in {100, 500}, acc \in FallInputs,
          hits \in { << >>,
                     << Hit("land", 5, FloorNormal) >>,
                     << Hit("deflect", 5, WallNormal) >>,
                     << Hit2(5, RampNormal, "slide", 5, WallNormal) >>,
                     << Hit2(5, RampNormal, "perch", 5, WallNormal) >> },
          r1 \in RandDraws, r2 \in RandDraws :
       \E o1 \in {TwinOutcome(PhysFalling(LimitFallSpeed(Velocity), acc, dt, 0, hits,
                      [GroundEnv EXCEPT !.PerchRadiusThreshold = fall.PerchRadiusThreshold,
                                        !.rand = r1]), dt)},
          o2 \in {TwinOutcome(PhysFalling(LimitFallSpeed(Velocity), acc, dt, 0, hits,
                      [GroundEnv EXCEPT !.PerchRadiusThreshold = fall.PerchRadiusThreshold,
                                        !.rand = r2]), dt)} :
            /\ Velocity' = o1.vel
            /\ Acceleration' = acc
            /\ MaxStepHeight' = o1.MaxStepHeight
            /\ WalkableFloorZ' = o1.WalkableFloorZ
            /\ MovementMode' = o1.mode
            /\ SurfaceFriction' = o1.sf
            /\ bBrakingWindowElapsed' = o1.flag
            /\ BrakingWindowTimeElapsed' = o1.elapsed
            /\ fall' = [fall EXCEPT !.n = @ + 1, !.nudged = o1.nudged, !.hits = hits,
                                    !.twin = o2]
            /\ UNCHANGED <<brk, run, bCheatFlying, bOnLadder, bIsSprinting, bWantsToWalk,
                           bIsCrouched, bCrouchFrameTolerated, calc, crouchVars, land,
                           bHasDeferredMovementMode, DeferredMovementMode,
                           bSimulatingPhysics, tk, jumpVars>>

SpecTwin == InitTwin /\ [][TwinTick]_vars

\* ------------------------------------------------------------------------
\* Jumping: CanJumpInternal_Implementation, CanAttemptJump, DoJump,
\* OnJumped_Implementation
\* ------------------------------------------------------------------------
\* the character's jump state and the floor stood on; FloorZ is the Z of
\* CurrentFloor.HitResult.ImpactNormal
JumpState(allowed, was, maxHold, count, maxCount, pressed, hold, floorZ) ==
    [IsJumpAllowed |-> allowed, bWasJumping |-> was, JumpMaxHoldTime |-> maxHold,
     JumpCurrentCount |-> count, JumpMaxCount |-> maxCount, bPressedJump |-> pressed,
     JumpKeyHoldTime |-> hold, FloorZ |-> floorZ]

\* the floor test of both functions, without its tolerance (1e-8, less than
\* one unit of the model)
FloorAllowsJump_Any(c, walkableZ) == TRUE
FloorAllowsJump(c, walkableZ) == c.FloorZ >= walkableZ

CanJumpInternal(c, mode, walkableZ) ==
    /\ c.IsJumpAllowed
    /\ IF ~c.bWasJumping \/ c.JumpMaxHoldTime <= 0
       THEN IF c.JumpCurrentCount = 0 /\ mode = "Falling"
            THEN c.JumpCurrentCount + 1 < c.JumpMaxCount
            ELSE c.JumpCurrentCount < c.JumpMaxCount
       ELSE /\ c.bPressedJump /\ c.JumpKeyHoldTime < c.JumpMaxHoldTime
            /\ \/ mode = "Walking"
               \/ c.JumpCurrentCount < c.JumpMaxCount
               \/ c.bWasJumping /\ c.JumpCurrentCount = c.JumpMaxCount
    /\ mode = "Walking" => FloorAllowsJump(c, walkableZ)

CanAttemptJump(c, mode, walkableZ, ladder) ==
    /\ c.IsJumpAllowed
    /\ IF mode = "Walking" THEN FloorAllowsJump(c, walkableZ)
       ELSE IF mode # "Falling" THEN ladder
       ELSE TRUE

\* DoJump: the velocity and mode it leaves, and what it returns; plane is
\* "z" when movement is constrained to a plane with normal Z of 1 or -1
DoJumpVelocity_Set(vel) == [vel EXCEPT !.z = JumpZVelocity]
DoJumpVelocity(vel) ==
    [vel EXCEPT !.z = IF @ <= 0 THEN JumpZVelocity ELSE @ + JumpZVelocity]

DoJumpResult(vel, mode, cheat, can, plane) ==
    IF ~cheat /\ can /\ plane # "z"
    THEN [ret |-> TRUE, vel |-> DoJumpVelocity(vel), mode |-> "Falling"]
    ELSE [ret |-> FALSE, vel |-> vel, mode |-> mode]

\* MaxJumpTime as BeginPlay computes it (time to the top of the arc)
MaxJumpTime == DivT(-4 * JumpZVelocity * TimeScale, 3 * GravityZ)

JumpBoostGate_NoWait(time, last, JumpBoost) == time >= last /\ JumpBoost # 0
JumpBoostGate(time, last, JumpBoost) == time >= last + MaxJumpTime /\ JumpBoost # 0

\* Input * Max(Input.GetSafeNormal2D() | Velocity.GetSafeNormal2D(), 0)
AlignedInput(input, vel) ==
    With(<<Size2D(input), Size2D(vel), input.x * vel.x + input.y * vel.y>>, LAMBDA t :
        IF t[1] = 0 \/ t[2] = 0 \/ t[3] <= 0 THEN ZeroVector
        ELSE With(DivT(DivT(t[3], t[1]) * NormalScale, t[2]), LAMBDA cos :
                Vec(DivT(input.x * cos, NormalScale), DivT(input.y * cos, NormalScale),
                    DivT(input.z * cos, NormalScale))))


\* facing is the actor's forward vector, in NormalScale; boostPerc in tenths
SpeedBoostPerc == IF bIsSprinting \/ bIsCrouched THEN 1 ELSE 5
MaxBoostedSpeed == DivT((GetMaxSpeed + GetMaxSpeed) * SpeedBoostPerc, 10)

\* the velocity the jump boost leaves, past the gate
JumpBoostVelocity(vel, facing, acc, JumpBoost, bunnyhop) ==
    With(IF JumpBoost # 1 THEN AlignedInput(acc, vel) ELSE acc, LAMBDA Input :
    With(DivT(Dot(Input, facing), NormalScale), LAMBDA ForwardSpeed :
    With(DivT(Abs(ForwardSpeed) * SpeedBoostPerc, 10), LAMBDA add :
    With(add + Size2D(vel), LAMBDA NewSpeed :
    With(IF ForwardSpeed * NormalScale < (-MaxAcceleration * 6428) THEN -1 ELSE 1, LAMBDA sign :
    With(sign * (IF NewSpeed > MaxBoostedSpeed THEN add - (NewSpeed - MaxBoostedSpeed)
                 ELSE add), LAMBDA SpeedAddition :
    With(VAdd(vel, Vec(DivT(facing.x * SpeedAddition, NormalScale),
                       DivT(facing.y * SpeedAddition, NormalScale),
                       DivT(facing.z * SpeedAddition, NormalScale))), LAMBDA clamped :
    With(VAdd(vel, Vec(DivT(facing.x * sign * add, NormalScale),
                       DivT(facing.y * sign * add, NormalScale),
                       DivT(facing.z * sign * add, NormalScale))), LAMBDA unclamped :
    With(IF bunnyhop /\ SizeSquared2D(unclamped) > SizeSquared2D(clamped)
         THEN unclamped ELSE clamped, LAMBDA JumpBoostedVel :
        IF SizeSquared2D(vel) < SizeSquared2D(JumpBoostedVel) THEN JumpBoostedVel
        ELSE vel)))))))))

\* OnJumped_Implementation: the velocity and LastJumpBoostTime it leaves
OnJumped(vel, facing, acc, JumpBoost, bunnyhop, time, last, ladder) ==
    IF ~ladder /\ JumpBoostGate(time, last, JumpBoost)
    THEN [vel |-> JumpBoostVelocity(vel, facing, acc, JumpBoost, bunnyhop),
          last |-> time, gate |-> TRUE]
    ELSE [vel |-> vel, last |-> last, gate |-> FALSE]

\* ------------------------------------------------------------------------
\* Ticks: TickComponent, SetNoClip, DoJump and the ragdoll
\* ------------------------------------------------------------------------
MaxTicks == 3
\* jumps whose vertical velocity adds up without a tick on the ground between
MaxJumps == 2

InitTick ==
    /\ Velocity = ZeroVector
    /\ brk = NoBrake
    /\ run = NoRun
    /\ Acceleration = ZeroVector
    /\ SurfaceFriction = FricScale
    /\ MovementMode \in {"Walking", "Falling"}
    /\ bBrakingWindowElapsed = TRUE
    /\ bCheatFlying = FALSE
    /\ bOnLadder = FALSE
    /\ MaxStepHeight = DefaultStepHeight
    /\ WalkableFloorZ = DefaultWalkableFloorZ
    /\ bIsSprinting = FALSE
    /\ bWantsToWalk = FALSE
    /\ bIsCrouched \in BOOLEAN
    /\ bCrouchFrameTolerated = FALSE
    /\ calc = NoCalc
    /\ fall = NoFall
    /\ InitRestVars

tickFixed == <<brk, run, Acceleration, SurfaceFriction, bOnLadder, MaxStepHeight,
               WalkableFloorZ, bIsSprinting, bWantsToWalk, bIsCrouched, calc, fall,
               crouchVars, land, WorldTime, LastJumpBoostTime, bPressedJump,
               bDeferJumpStop>>

\* TickComponent(DeltaTime); the movement of Super::TickComponent is taken by
\* the mode it ends in, and movement that ends on the ground leaves no
\* vertical velocity.  A walking or falling character may land or leave the
\* ground; a ragdoll is not moved
TickComponent ==
    /\ tk.n < MaxTicks
    /\ \E dt \in {50, 100, 200},
          moved \in IF ~bSimulatingPhysics /\ MovementMode \in {"Walking", "Falling"}
                    THEN {"Walking", "Falling"}
                    ELSE {MovementMode} :
       \E mode \in {ModeOfTick(moved)} :
       \E w \in {BrakingWindowUpdate(mode = "Walking", bBrakingWindowElapsed,
                                     BrakingWindowTimeElapsed, dt)} :
            /\ MovementMode' = mode
            /\ bHasDeferredMovementMode' = FALSE
            /\ bBrakingWindowElapsed' = IF bSimulatingPhysics THEN bBrakingWindowElapsed
                                        ELSE w.flag
            /\ BrakingWindowTimeElapsed' = IF bSimulatingPhysics
                                           THEN BrakingWindowTimeElapsed ELSE w.elapsed
            /\ bCrouchFrameTolerated' = IF bSimulatingPhysics THEN bCrouchFrameTolerated
                                        ELSE IsCrouching
            /\ tk' = [n |-> tk.n + 1, fresh |-> TRUE, physics |-> bSimulatingPhysics,
                      dt |-> dt, elapsed |-> BrakingWindowTimeElapsed,
                      flag |-> bBrakingWindowElapsed, moved |-> moved,
                      pending |-> bHasDeferredMovementMode,
                      sinceLanding |-> IF mode /= "Walking" THEN 0
                                       ELSE IF tk.sinceLanding < 0 THEN -1
                                       ELSE Min(tk.sinceLanding + dt, BrakingWindow),
                      ragdoll |-> bSimulatingPhysics
                                  \/ (mode = "Walking" /\ tk.ragdoll)]
            /\ Velocity' = IF moved = "Walking" /\ ~bSimulatingPhysics
                            THEN [Velocity EXCEPT !.z = 0] ELSE Velocity
            /\ UNCHANGED <<tickFixed, bCheatFlying, DeferredMovementMode,
                           bSimulatingPhysics, jp>>

\* SetNoClip(bNoClip)
SetNoClip ==
    \E bNoClip \in BOOLEAN :
        /\ MovementMode' = IF bNoClip THEN "Flying" ELSE "Walking"
        /\ DeferredMovementMode' = IF bNoClip THEN "Flying" ELSE "Walking"
        /\ bCheatFlying' = bNoClip
        /\ bHasDeferredMovementMode' = TRUE
        /\ tk' = [tk EXCEPT !.fresh = FALSE]
        /\ UNCHANGED <<tickFixed, Velocity, bBrakingWindowElapsed,
                       BrakingWindowTimeElapsed, bCrouchFrameTolerated,
                       bSimulatingPhysics, jp>>

\* ToggleNoClip()
ToggleNoClip ==
    /\ MovementMode' = IF ~bCheatFlying THEN "Flying" ELSE "Walking"
    /\ DeferredMovementMode' = IF ~bCheatFlying THEN "Flying" ELSE "Walking"
    /\ bCheatFlying' = ~bCheatFlying
    /\ bHasDeferredMovementMode' = TRUE
    /\ tk' = [tk EXCEPT !.fresh = FALSE]
    /\ UNCHANGED <<tickFixed, Velocity, bBrakingWindowElapsed,
                   BrakingWindowTimeElapsed, bCrouchFrameTolerated,
                   bSimulatingPhysics, jp>>

\* the jump states DoJump and the two tests are called in: on a flat floor,
\* on a floor too steep to walk on, with the jump count used up, with jumps
\* not allowed, holding the key of a jump under way, and with a second
\* jump to make on a floor walkable only until sliding
JumpStates ==
    { JumpState(TRUE, FALSE, 0, 0, 1, TRUE, 0, NormalScale),
      JumpState(TRUE, FALSE, 0, 0, 1, TRUE, 0, 6000),
      JumpState(TRUE, FALSE, 0, 1, 1, TRUE, 0, NormalScale),
      JumpState(FALSE, FALSE, 0, 0, 1, TRUE, 0, NormalScale),
      JumpState(TRUE, TRUE, 2000, 1, 1, TRUE, 1000, 6000),
      JumpState(TRUE, FALSE, 0, 0, 2, TRUE, 0, 8000) }

\* DoJump(bClientSimulation), CharacterOwner->CanJump() being
\* CanJumpInternal_Implementation
DoJump ==
    /\ Velocity.z < MaxJumps * JumpZVelocity
    /\ \E c \in JumpStates, plane \in {"none", "z"} :
       \E can \in {CanJumpInternal(c, MovementMode, WalkableFloorZ)} :
       \E res \in {DoJumpResult(Velocity, MovementMode, bCheatFlying, can, plane)} :
            /\ Velocity' = res.vel
            /\ MovementMode' = res.mode
            /\ tk' = [tk EXCEPT !.fresh = FALSE]
            /\ jp' = [NoJump EXCEPT !.boostAt = jp.boostAt, !.op = "DoJump", !.ret = res.ret,
                  !.pre = Velocity,
                                !.mode = MovementMode, !.cheat = bCheatFlying,
                                !.can = can, !.plane = plane]
            /\ UNCHANGED <<tickFixed, bCheatFlying, bBrakingWindowElapsed,
                           BrakingWindowTimeElapsed, bCrouchFrameTolerated,
                           bHasDeferredMovementMode, DeferredMovementMode,
                           bSimulatingPhysics>>

\* the ragdoll is switched on or off: UpdatedComponent starts or stops
\* simulating physics
SetSimulatePhysics ==
    /\ bSimulatingPhysics' = ~bSimulatingPhysics
    /\ tk' = [tk EXCEPT !.fresh = FALSE]
    /\ UNCHANGED <<tickFixed, Velocity, MovementMode, bCheatFlying,
                   bBrakingWindowElapsed, BrakingWindowTimeElapsed,
                   bCrouchFrameTolerated, bHasDeferredMovementMode,
                   DeferredMovementMode, jp>>

SpecTick ==
    InitTick /\ [][TickComponent \/ SetNoClip \/ ToggleNoClip \/ DoJump
                   \/ SetSimulatePhysics]_vars

\* ------------------------------------------------------------------------
\* Jumps: world time, DoJump, OnJumped, the two jump tests
\* ------------------------------------------------------------------------
MaxWorldTime == 7000

InitJump ==
    /\ \E v \in { ZeroVector, Vec(4000, 0, 0), Vec(0, 10000, 0), Vec(-6000, 0, 0) } : Velocity = v
    /\ brk = NoBrake
    /\ run = NoRun
    /\ \E acc \in { ZeroVector, Vec(MaxAcceleration, 0, 0), Vec(-MaxAcceleration, 0, 0) } :
          Acceleration = acc
    /\ SurfaceFriction = FricScale
    /\ bCheatFlying \in BOOLEAN
    /\ MovementMode \in (IF bCheatFlying THEN {"Flying"} ELSE {"Walking", "Falling"})
    /\ bBrakingWindowElapsed = TRUE
    /\ bOnLadder \in BOOLEAN
    /\ MaxStepHeight = DefaultStepHeight
    /\ WalkableFloorZ = DefaultWalkableFloorZ
    /\ bIsSprinting \in BOOLEAN
    /\ bWantsToWalk = FALSE
    /\ bIsCrouched = FALSE
    /\ bCrouchFrameTolerated = FALSE
    /\ calc = NoCalc
    /\ fall = NoFall
    /\ InitRestVars

jumpFixed == <<brk, run, Acceleration, SurfaceFriction, MovementMode, bBrakingWindowElapsed,
               bCheatFlying, bOnLadder, MaxStepHeight, WalkableFloorZ, bIsSprinting,
               bWantsToWalk, bIsCrouched, bCrouchFrameTolerated, calc, fall, crouchVars,
               land, tickVars, bPressedJump, bDeferJumpStop>>

\* world time passes
WorldTick ==
    /\ WorldTime < MaxWorldTime
    /\ \E dt \in {MaxJumpTime - 1, MaxJumpTime} : WorldTime' = WorldTime + dt
    /\ UNCHANGED <<jumpFixed, Velocity, LastJumpBoostTime, jp>>

\* OnJumped_Implementation(), with the console variables move.JumpBoost and
\* move.Bunnyhopping as they are at the call
OnJumped_Implementation ==
    \E facing \in { Vec(NormalScale, 0, 0), Vec(0, NormalScale, 0), Vec(7071, 7071, 0) },
          JumpBoost \in {0, 1, 2}, bunnyhop \in BOOLEAN :
    \E res \in {OnJumped(Velocity, facing, Acceleration, JumpBoost, bunnyhop, WorldTime,
                          LastJumpBoostTime, bOnLadder)} :
        /\ Velocity' = res.vel
        /\ LastJumpBoostTime' = res.last
        /\ jp' = [NoJump EXCEPT !.op = "OnJumped", !.pre = Velocity, !.at = WorldTime,
                            !.gate = res.gate, !.changed = (res.vel # Velocity),
                            !.bunnyhop = bunnyhop, !.cap = MaxBoostedSpeed,
                            !.prevBoostAt = jp.boostAt,
                            !.boostAt = IF res.vel # Velocity THEN WorldTime
                                        ELSE jp.boostAt]
        /\ UNCHANGED <<jumpFixed, WorldTime>>

\* CanJumpInternal_Implementation() and CanAttemptJump(), called in the same
\* state
CanJump ==
    \E c \in JumpStates :
        /\ jp' = [NoJump EXCEPT !.boostAt = jp.boostAt, !.op = "CanJump", !.c = c,
              !.mode = MovementMode,
                            !.can = CanJumpInternal(c, MovementMode, WalkableFloorZ),
                            !.attempt = CanAttemptJump(c, MovementMode, WalkableFloorZ,
                                                       bOnLadder)]
        /\ UNCHANGED <<jumpFixed, Velocity, WorldTime, LastJumpBoostTime>>

SpecJump == InitJump /\ [][WorldTick \/ DoJump \/ OnJumped_Implementation \/ CanJump]_vars

\* ------------------------------------------------------------------------
\* C1
\* ------------------------------------------------------------------------
\* C1: in a call with Friction > 0 and BrakingDeceleration > 0 the velocity
\* after every braking sub-step has a non-negative dot product with the
\* velocity V the call started from; the sub-step whose friction makes the
\* dot product <= 0 leaves exactly zero and is the last one, and the call
\* leaves the velocity of its last sub-step
C1_BrakingNeverReverses ==
    (brk.called /\ brk.fr > 0 /\ brk.dec > 0) =>
        /\ \A i \in 1..Len(brk.trace) :
              /\ Dot(brk.trace[i], brk.pre) >= 0
              /\ (Dot(brk.raw[i], brk.pre) <= 0) =>
                    (brk.trace[i] = ZeroVector /\ i = Len(brk.trace))
        /\ Len(brk.trace) > 0 => Velocity = brk.trace[Len(brk.trace)]
        /\ Dot(Velocity, brk.pre) >= 0

\* a call of several sub-steps whose last one overshot and was set to zero
C1_Witness ==
    /\ brk.called /\ brk.fr > 0 /\ brk.dec > 0
    /\ Len(brk.trace) >= 3
    /\ Dot(brk.raw[Len(brk.raw)], brk.pre) < 0
    /\ Velocity = ZeroVector

\* ------------------------------------------------------------------------
\* C3
\* ------------------------------------------------------------------------
\* C3 as stated: the velocity is unchanged when the braking deceleration
\* passed in is 0, when the friction passed in is 0, or when the velocity is
\* already nearly zero
C3_Original ==
    (brk.called /\ (brk.dec = 0 \/ brk.fr = 0 \/ IsNearlyZero(brk.pre, BrakingNearlyZero)))
        => Velocity = brk.pre

\* C3 amended: the velocity is unchanged when the friction passed in is 0 or
\* the velocity is already nearly zero (every component within 0.1); with a
\* braking deceleration of 0 it is unchanged only when the horizontal speed
\* is 0 as well, because the deceleration is first raised to the speed
C3_BrakingNoOp ==
    (brk.called /\ (\/ brk.fr = 0
                    \/ IsNearlyZero(brk.pre, BrakingNearlyZero)
                    \/ (brk.dec = 0 /\ SizeSquared2D(brk.pre) = 0)))
        => Velocity = brk.pre

\* a call with zero friction on a moving character with valid data
C3_Witness ==
    /\ brk.called /\ brk.fr = 0 /\ brk.dec > 0 /\ brk.dt > 0
    /\ brk.env = RunEnv
    /\ ~IsNearlyZero(brk.pre, BrakingNearlyZero)
    /\ Velocity = brk.pre

\* ------------------------------------------------------------------------
\* C2
\* ------------------------------------------------------------------------

C2_NearlyZero == IsNearlyZero(Velocity, BrakingNearlyZero)

C4_AtMaxSpeed == Velocity = VScale(calc.dir, GetMaxSpeed, 1)

\* C4 as stated: from rest on the ground with the braking window elapsed,
\* full input in one fixed direction every tick brings the horizontal speed
\* to exactly GetMaxSpeed() within finitely many ticks (here TicksToMaxSpeed),
\* and the speed never exceeds GetMaxSpeed()
C4_Original ==
    /\ SizeSquared2D(Velocity) <= GetMaxSpeed * GetMaxSpeed
    /\ calc.ticks >= TicksToMaxSpeed => C4_AtMaxSpeed

\* C4 amended: in such a run the horizontal speed never exceeds
\* GetMaxSpeed(); every tick made with a positive SurfaceFriction either
\* ends at exactly GetMaxSpeed() or raises the speed, and TicksToMaxSpeed
\* such ticks end at exactly GetMaxSpeed(); a tick made with SurfaceFriction
\* 0 (a floor whose material has friction 0) leaves the velocity as it is
C4_GroundSpeedCap ==
    /\ SizeSquared2D(Velocity) <= GetMaxSpeed * GetMaxSpeed
    /\ (calc.ticks > 0 /\ calc.sf > 0) =>
          (C4_AtMaxSpeed \/ SizeSquared2D(Velocity) > SizeSquared2D(calc.pre))
    /\ (calc.ticks > 0 /\ calc.sf = 0) => Velocity = calc.pre
    /\ calc.posTicks >= TicksToMaxSpeed => C4_AtMaxSpeed

\* the maximum speed, reached by ticks that accelerated after braking
C4_Witness ==
    /\ C4_AtMaxSpeed
    /\ calc.sf > 0
    /\ calc.pre /= ZeroVector /\ calc.pre /= Velocity


\* ------------------------------------------------------------------------
\* C5
\* ------------------------------------------------------------------------
\* no move of the last tick met a blocking hit
C5_FreeFlight == \A i \in 1..Len(fall.trace) : fall.trace[i].hit = "none"

\* C5 as stated: every tick in the air under input perpendicular to the
\* velocity leaves the horizontal speed strictly greater than before
C5_Original ==
    (fall.n > 0 /\ C5_FreeFlight) => SizeSquared2D(Velocity) > SizeSquared2D(fall.pre)

\* C5 amended: a tick in the air under perpendicular input and without a
\* blocking hit leaves the horizontal speed strictly greater when the surface
\* friction it started with is above 0, at any speed, the ground maximum
\* included; with a surface friction of 0 (kept from a frictionless floor
\* until UpdateSurfaceFriction resets it) it leaves the horizontal velocity
\* as it was
C5_AirStrafeGains ==
    (fall.n > 0 /\ C5_FreeFlight) =>
        /\ fall.sf > 0 => SizeSquared2D(Velocity) > SizeSquared2D(fall.pre)
        /\ fall.sf = 0 => (Velocity.x = fall.pre.x /\ Velocity.y = fall.pre.y)

\* a tick that started at or above the ground maximum speed and gained
C5_Witness ==
    /\ fall.n > 0 /\ C5_FreeFlight /\ fall.sf > 0
    /\ SizeSquared2D(fall.pre) >= GetMaxSpeed * GetMaxSpeed
    /\ SizeSquared2D(Velocity) > SizeSquared2D(fall.pre)

\* ------------------------------------------------------------------------
\* C6
\* ------------------------------------------------------------------------
\* gravity for the whole sub-step e would take Velocity.Z from > 0 to <= 0
C6_Crosses(e) == e.OldVelocity.z > 0 /\ e.gravity.z <= 0

\* the sub-step e was cut to the time -V0/G to the apex (to the 0.1 ms the
\* time is counted in) and ended with Velocity.Z = 0, the rest of its time
\* left in RemainingTime, and without a reported hit it went on falling
C6_CutAtApex(e) ==
    /\ (e.TimeTick - 1) * (-GravityZ) < e.OldVelocity.z * TimeScale
    /\ e.OldVelocity.z * TimeScale < (e.TimeTick + 1) * (-GravityZ)
    /\ e.TimeTick < e.TimeTick0 \/ e.gravity.z = 0
    /\ e.apex.z = 0
    /\ e.hit = "none" => (e.after = e.before - e.TimeTick /\ e.end = "go")

\* C6 as stated: every sub-step that would cross the apex is cut there
C6_Original ==
    \A i \in 1..Len(fall.trace) :
        C6_Crosses(fall.trace[i]) => C6_CutAtApex(fall.trace[i])

\* C6 amended: a sub-step that would cross the apex is cut there when the
\* time to the apex is at least ApexTimeMinimum (0.0001 s) and fewer than
\* MaxJumpApexAttemptsPerSimulation sub-steps of this simulation were cut
\* before; otherwise it runs its whole time under gravity and ends with
\* Velocity.Z <= 0 as gravity left it
C6_ApexSubStep ==
    \A i \in 1..Len(fall.trace) :
        LET e == fall.trace[i]
        IN  C6_Crosses(e) =>
                IF /\ e.OldVelocity.z * TimeScale >= ApexTimeMinimum * (-GravityZ)
                   /\ e.attempts < MaxJumpApexAttemptsPerSimulation
                THEN C6_CutAtApex(e)
                ELSE /\ e.TimeTick = e.TimeTick0
                     /\ e.apex = e.gravity
                     /\ e.hit = "none" => e.after = e.before - e.TimeTick0

\* a sub-step cut at the apex strictly inside its time, without a hit
C6_Witness ==
    \E i \in 1..Len(fall.trace) :
        LET e == fall.trace[i]
        IN  /\ C6_Crosses(e) /\ e.split /\ e.hit = "none"
            /\ 0 < e.TimeTick /\ e.TimeTick < e.TimeTick0
            /\ e.apex.z = 0 /\ e.gravity.z < 0

\* ------------------------------------------------------------------------
\* C7, C8
\* ------------------------------------------------------------------------
\* a crouch was requested and released, no tick since the request was
\* obstructed, and the transitions have run to completion
C7_RoundTripDone ==
    /\ cr.started /\ cr.clean /\ cr.ticks > 0
    /\ ~bWantsToCrouch /\ ~bIsInCrouchTransition /\ ~bIsCrouched

\* C7: after a crouch request and an uncrouch request with no obstruction on
\* any tick, once the transitions have run to completion the capsule half
\* height is exactly the standing half height, whatever the tick lengths and
\* however far the crouch had gone
C7_CrouchRoundTrip == C7_RoundTripDone => CapsuleHalfHeight = StandingHalfHeight

\* a round trip that was released part way into the crouch and took more
\* than one uncrouch step
C7_Witness ==
    /\ C7_RoundTripDone /\ ~cr.reached /\ cr.steps >= 2
    /\ CapsuleHalfHeight = StandingHalfHeight

\* C8: base anchored, after a full unobstructed crouch and a full
\* unobstructed uncrouch the base of the capsule is at the height it had
\* before the crouch
C8_NoPositionDrift ==
    (C7_RoundTripDone /\ cr.reached /\ bCrouchMaintainsBaseLocation) =>
        LocationZ - CapsuleHalfHeight = cr.base0

\* ------------------------------------------------------------------------
\* C9
\* ------------------------------------------------------------------------
\* two evaluations of IsValidLandingSpot with the same hit and capsule size
C9_SameHitAndSize ==
    /\ land.n >= 2
    /\ land.cur.hit = land.prev.hit
    /\ land.cur.size = land.prev.size

\* C9 as stated: two evaluations with the same hit and the same capsule size
\* return the same bool
C9_Original == C9_SameHitAndSize => land.cur.result = land.prev.result

\* C9 amended: two evaluations with the same hit and the same capsule size
\* return the same bool when they are also made at the same Velocity and
\* walkable floor Z, with the same answer of FindFloor at the capsule location
\* and the same delta seconds of the world
C9_LandingSpotInputs ==
    (/\ C9_SameHitAndSize
     /\ land.cur.vel = land.prev.vel
     /\ land.cur.wfz = land.prev.wfz
     /\ land.cur.floor = land.prev.floor
     /\ land.cur.ds = land.prev.ds) => land.cur.result = land.prev.result

\* two evaluations on the ramp that agree on all of these, made before and
\* after the surface friction was reset, and the spot is valid
C9_Witness ==
    /\ C9_SameHitAndSize
    /\ land.cur.vel = land.prev.vel /\ land.cur.wfz = land.prev.wfz
    /\ land.cur.floor = land.prev.floor /\ land.cur.ds = land.prev.ds
    /\ land.cur.sf # land.prev.sf
    /\ land.cur.hit.Normal = RampNormal
    /\ Dot(land.cur.vel, RampNormal) < 0
    /\ land.cur.result

\* ------------------------------------------------------------------------
\* C10
\* ------------------------------------------------------------------------
\* the braking window as a tick that ends off the ground leaves it, and the
\* only ticks in which the elapsed time grows
C10_Window ==
    /\ ~IsMovingOnGround => (~bBrakingWindowElapsed /\ BrakingWindowTimeElapsed = 0)
    /\ BrakingWindowTimeElapsed > tk.elapsed =>
          (IsMovingOnGround /\ ~bBrakingWindowElapsed)

\* C10 as stated: after every TickComponent that ends off the ground the
\* window is not elapsed and its time is 0, and the time grows only in ticks
\* that end on the ground with the window not yet elapsed
C10_Original == tk.fresh => C10_Window

\* C10 amended: the same after every TickComponent in which UpdatedComponent
\* is not simulating physics; a tick of a ragdoll returns before the braking
\* window and leaves bBrakingWindowElapsed and BrakingWindowTimeElapsed as
\* they were
C10_BrakingWindow ==
    tk.fresh =>
        IF tk.physics
        THEN bBrakingWindowElapsed = tk.flag /\ BrakingWindowTimeElapsed = tk.elapsed
        ELSE C10_Window

\* a tick that found the window elapsed and ended off the ground, and a tick
\* on the ground in which the time grew
C10_Witness ==
    /\ tk.fresh /\ ~tk.physics
    /\ \/ tk.flag /\ ~IsMovingOnGround /\ ~bBrakingWindowElapsed
       \/ BrakingWindowTimeElapsed > tk.elapsed /\ tk.elapsed > 0

\* ------------------------------------------------------------------------
\* C11
\* ------------------------------------------------------------------------
\* a call of CalcVelocity that was not short-circuited has just been made
C11_Ran == calc.ticks > 0 /\ ~calc.skipped

\* C11: after a CalcVelocity call that is not short-circuited, at a horizontal
\* speed of at most MaxWalkSpeedCrouched MaxStepHeight is DefaultStepHeight
\* and the walkable floor Z is DefaultWalkableFloorZ; at a higher speed
\* MaxStepHeight lies between MinStepHeight and DefaultStepHeight
C11_StepHeight ==
    C11_Ran =>
        IF SizeSquared2D(Velocity) <= MaxWalkSpeedCrouched * MaxWalkSpeedCrouched
        THEN MaxStepHeight = DefaultStepHeight /\ WalkableFloorZ = DefaultWalkableFloorZ
        ELSE MinStepHeight <= MaxStepHeight /\ MaxStepHeight <= DefaultStepHeight

\* a call that left the speed above SpeedMultMax in the air: the step height
\* came down to MinStepHeight
C11_Witness ==
    /\ C11_Ran
    /\ Size2D(Velocity) > SpeedMultMax
    /\ IsFalling
    /\ MaxStepHeight = MinStepHeight
    /\ WalkableFloorZ = SlideWalkableFloorZ

\* ------------------------------------------------------------------------
\* C12
\* ------------------------------------------------------------------------
\* C12: after a tick in which DoUnCrouchResize found the larger capsule
\* blocked, the capsule half height and the position are as before the tick
\* and the uncrouch is still pending: the transition flag is set, or the
\* character still counts as crouched so that UnCrouch sets it again at the
\* start of the next tick
C12_BlockedUncrouchPends ==
    cr.blocked =>
        /\ CapsuleHalfHeight = cr.h0
        /\ LocationZ = cr.z0
        /\ bIsInCrouchTransition \/ bIsCrouched

\* ------------------------------------------------------------------------
\* C13
\* ------------------------------------------------------------------------
\* the second agent is, after the tick, where the first agent is
C13_SameOutcome ==
    /\ fall.twin.vel = Velocity
    /\ fall.twin.mode = MovementMode
    /\ fall.twin.h = CapsuleHalfHeight
    /\ fall.twin.flag = bBrakingWindowElapsed
    /\ fall.twin.elapsed = BrakingWindowTimeElapsed

C14_BoostsApart ==
    (jp.op = "OnJumped" /\ jp.prevBoostAt >= 0 /\ jp.at - jp.prevBoostAt < MaxJumpTime)
        => ~jp.changed

\* a second boost changes the velocity exactly MaxJumpTime after the first
C14_Witness ==
    /\ jp.op = "OnJumped" /\ jp.changed
    /\ jp.prevBoostAt >= 0
    /\ jp.at - jp.prevBoostAt = MaxJumpTime

\* ------------------------------------------------------------------------
\* C15
\* ------------------------------------------------------------------------
\* C15: with move.Bunnyhopping off, a jump boost that changes the velocity
\* leaves a horizontal speed of at most MaxBoostedSpeed, that is
\* 2 * GetMaxSpeed() * SpeedBoostPerc
C15_BoostCapped ==
    (jp.op = "OnJumped" /\ jp.changed /\ ~jp.bunnyhop)
        => SizeSquared2D(Velocity) <= jp.cap * jp.cap

\* ------------------------------------------------------------------------
\* C16
\* ------------------------------------------------------------------------
\* C16: DoJump returns true exactly when there is no noclip, CanJump holds
\* and movement is not constrained to a horizontal plane; it then leaves
\* Velocity.Z at JumpZVelocity when it was <= 0 and JumpZVelocity higher when
\* it was > 0, and the mode Falling; a refused DoJump returns false and
\* leaves the velocity and the mode as they were
C16_DoJump ==
    jp.op = "DoJump" =>
        /\ jp.ret <=> (~jp.cheat /\ jp.can /\ jp.plane # "z")
        /\ IF jp.ret
           THEN /\ Velocity.z = IF jp.pre.z <= 0 THEN JumpZVelocity
                                ELSE jp.pre.z + JumpZVelocity
                /\ Velocity.x = jp.pre.x /\ Velocity.y = jp.pre.y
                /\ MovementMode = "Falling"
           ELSE Velocity = jp.pre /\ MovementMode = jp.mode

\* a second jump made while rising
C16_Witness ==
    /\ jp.op = "DoJump" /\ jp.ret
    /\ jp.pre.z > 0 /\ jp.mode = "Falling"
    /\ Velocity.z = 2 * JumpZVelocity

\* ------------------------------------------------------------------------
\* C17
\* ------------------------------------------------------------------------
\* C17: on the ground, with the Z of the floor's impact normal below the
\* walkable floor Z, CanJumpInternal and CanAttemptJump are both false,
\* whatever the jump count, the hold time and the jump-allowed flag
C17_SteepFloorNoJump ==
    (jp.op = "CanJump" /\ jp.mode = "Walking" /\ jp.c.FloorZ < WalkableFloorZ)
        => ~jp.can /\ ~jp.attempt

\* refused on a steep floor although the key of a jump under way is held
C17_Witness ==
    /\ jp.op = "CanJump" /\ jp.mode = "Walking"
    /\ jp.c.FloorZ < WalkableFloorZ
    /\ jp.c.IsJumpAllowed /\ jp.c.bWasJumping
    /\ jp.c.JumpKeyHoldTime < jp.c.JumpMaxHoldTime
    /\ ~jp.can /\ ~jp.attempt

\* ------------------------------------------------------------------------
\* C18
\* ------------------------------------------------------------------------
\* a velocity component changed by d under an input component a: unchanged
\* without input, and otherwise not moved against it
C18_Along(d, a) == IF a = 0 THEN d = 0 ELSE d * a >= 0

\* C18: a CalcVelocity call on the ground that is not short-circuited brakes
\* the velocity exactly when the braking window is elapsed: before that the
\* call leaves the velocity as it was when there is no input, and otherwise
\* only adds to it along the input; once the window is elapsed, a velocity
\* that ApplyVelocityBraking does not skip is made smaller on a floor with
\* friction when there is no input
C18_BrakingAfterWindow ==
    (C11_Ran /\ IsMovingOnGround) =>
        /\ (~bBrakingWindowElapsed /\ calc.acc = ZeroVector) => Velocity = calc.pre
        /\ (~bBrakingWindowElapsed /\ calc.acc # ZeroVector) =>
              /\ C18_Along(Velocity.x - calc.pre.x, calc.acc.x)
              /\ C18_Along(Velocity.y - calc.pre.y, calc.acc.y)
              /\ C18_Along(Velocity.z - calc.pre.z, calc.acc.z)
        /\ (/\ bBrakingWindowElapsed /\ calc.acc = ZeroVector /\ calc.sf > 0
            /\ ~BrakingSkipsVelocity(calc.pre)) =>
              SizeSquared2D(Velocity) < SizeSquared2D(calc.pre)

\* a fast velocity on a floor of full friction that a call within the
\* braking window, without input, left as it was
C18_Witness ==
    /\ C11_Ran /\ IsMovingOnGround /\ ~bBrakingWindowElapsed
    /\ calc.acc = ZeroVector /\ calc.sf = FricScale
    /\ Size2D(calc.pre) > SprintSpeed
    /\ Velocity = calc.pre

\* ------------------------------------------------------------------------
\* C19
\* ------------------------------------------------------------------------
\* C19: the sub-step of PhysFalling after whose moves or impact handler the
\* movement mode is no longer Falling, or the component data is no longer
\* valid, is the last sub-step of the call
C19_ReturnsAtOnce ==
    \A i \in DOMAIN fall.trace :
        (fall.trace[i].mode # "Falling" \/ fall.trace[i].end = "invalid")
            => i = Len(fall.trace)

\* ------------------------------------------------------------------------
\* C20
\* ------------------------------------------------------------------------
\* C20: a call of PhysFalling runs at most MaxSimulationIterations +
\* MaxJumpApexAttemptsPerSimulation sub-steps, at most
\* MaxJumpApexAttemptsPerSimulation of them cut at the apex, and a call with
\* DeltaTime below MIN_TICK_TIME runs none and leaves the velocity, the mode
\* and the time as they were
C20_LoopBounded ==
    fall.n > 0 =>
        /\ Len(fall.trace) <= MaxSimulationIterations + MaxJumpApexAttemptsPerSimulation
        /\ Cardinality({ i \in DOMAIN fall.trace : fall.trace[i].split })
              <= MaxJumpApexAttemptsPerSimulation
        /\ fall.dt < MIN_TICK_TIME =>
              /\ fall.trace = << >>
              /\ Velocity = LimitFallSpeed(fall.pre)
              /\ IsFalling
              /\ fall.RemainingTime = fall.dt

\* a call that ran every sub-step it can: two cut at the apex and a last one
C20_Witness ==
    /\ fall.n > 0
    /\ Len(fall.trace) = MaxSimulationIterations + MaxJumpApexAttemptsPerSimulation
    /\ Cardinality({ i \in DOMAIN fall.trace : fall.trace[i].split })
          = MaxJumpApexAttemptsPerSimulation

\* ------------------------------------------------------------------------
\* Specification SpecFriction: UpdateSurfaceFriction called directly
\* ------------------------------------------------------------------------
MaxFrictionCalls == 2

InitFriction ==
    /\ \E z \in {-JumpVelocity, 0, 1, JumpVelocity, JumpVelocity + 1} :
            Velocity = Vec(1000, 0, z)
    /\ brk = NoBrake
    /\ run = NoRun
    /\ Acceleration = ZeroVector
    /\ \E mat \in {NoMaterial, 0, 56} : SurfaceFriction = GetFrictionFromHit(mat)
    /\ MovementMode \in {"Walking", "Falling"}
    /\ bBrakingWindowElapsed = TRUE
    /\ bCheatFlying \in BOOLEAN
    /\ bOnLadder \in BOOLEAN
    /\ MaxStepHeight = DefaultStepHeight
    /\ WalkableFloorZ = DefaultWalkableFloorZ
    /\ bIsSprinting = FALSE
    /\ bWantsToWalk = FALSE
    /\ bIsCrouched = FALSE
    /\ bCrouchFrameTolerated = FALSE
    /\ calc = NoCalc
    /\ fall = [n |-> 0, sf |-> 0, bIsSliding |-> FALSE, floorWalkable |-> FALSE]
    /\ InitRestVars

\* one call of UpdateSurfaceFriction(bIsSliding) over a floor that is walkable
\* or not and whose trace hits the material mat
UpdateSurfaceFrictionCall ==
    /\ fall.n < MaxFrictionCalls
    /\ \E bIsSliding \in BOOLEAN, floorWalkable \in BOOLEAN, mat \in {NoMaterial, 20} :
            /\ SurfaceFriction' =
                    UpdateSurfaceFriction(Velocity, bIsSliding, floorWalkable, mat)
            /\ fall' = [n |-> fall.n + 1, sf |-> SurfaceFriction,
                        bIsSliding |-> bIsSliding, floorWalkable |-> floorWalkable]
    /\ UNCHANGED <<Velocity, brk, run, Acceleration, MovementMode,
                   bBrakingWindowElapsed, bCheatFlying, bOnLadder, MaxStepHeight,
                   WalkableFloorZ, bIsSprinting, bWantsToWalk, bIsCrouched,
                   bCrouchFrameTolerated, calc, restVars>>

SpecFriction == InitFriction /\ [][UpdateSurfaceFrictionCall]_vars

\* ------------------------------------------------------------------------
\* C21
\* ------------------------------------------------------------------------
\* the last UpdateSurfaceFriction call was made while airborne: falling, or
\* without a walkable floor
C21_AirborneCall == fall.n > 0 /\ (IsFalling \/ ~fall.floorWalkable)

\* the call took the branch that resets the friction
C21_Resets ==
    bOnLadder \/ bCheatFlying \/ Velocity.z > JumpVelocity \/ Velocity.z <= 0

\* C21 as stated: after every airborne UpdateSurfaceFriction call the friction
\* is 1.0, or 0.25 when sliding; the previous value is never kept
C21_Original ==
    C21_AirborneCall =>
        SurfaceFriction = IF fall.bIsSliding THEN SlidingSurfaceFriction ELSE FricScale

\* C21 (amended): after an airborne UpdateSurfaceFriction call the friction is
\* 1.0 on a ladder, in noclip, with Velocity.Z <= 0 or Velocity.Z > JumpVelocity;
\* otherwise it is 0.25 when the call is a sliding one and else the value it
\* had before the call
C21_AirborneFriction ==
    C21_AirborneCall =>
        SurfaceFriction = IF C21_Resets THEN FricScale
                          ELSE IF fall.bIsSliding THEN SlidingSurfaceFriction
                          ELSE fall.sf

\* an airborne, non-sliding call with a small upward velocity left the
\* friction of the last ground material in place
C21_Witness ==
    /\ C21_AirborneCall
    /\ ~C21_Resets
    /\ ~fall.bIsSliding
    /\ SurfaceFriction = fall.sf
    /\ SurfaceFriction \notin {FricScale, SlidingSurfaceFriction}

\* ------------------------------------------------------------------------
\* C22
\* ------------------------------------------------------------------------
\* the last CalcVelocity call ran its walk/air branch
C22_WalkBranch == calc.ticks > 0 /\ ~calc.skipped /\ ~bCheatFlying /\ ~bOnLadder

\* the velocity that call entered the walk/air branch with: after braking on
\* a ground move and the axis speed limit
C22_BranchVelocity ==
    LimitAxisSpeed(IF IsGroundMove
                   THEN CalcBraking(calc.pre, calc.acc, calc.dt, GroundFriction,
                                    BrakingDecelerationWalking, GetMaxSpeed, GroundEnv)
                   ELSE calc.pre)

\* the input acceleration clamped to max speed, the requested magnitude M and
\* the veer of that call
C22_Input == GetClampedToMaxSize2D(calc.acc, GetMaxSpeed)
C22_M ==
    Size2D(IF IsGroundMove THEN C22_Input
           ELSE GetClampedToMaxSize2D(C22_Input, AirSpeedCap))
C22_Veer == Veer(C22_BranchVelocity, C22_Input)

\* C22: in the walk/air branch, if veer >= M the input adds nothing to the
\* velocity; otherwise the velocity added has magnitude at most M - veer and
\* the velocity along the input direction does not end above max(veer, M)
C22_VeerCap ==
    C22_WalkBranch =>
        IF C22_Veer >= C22_M
        THEN Velocity = C22_BranchVelocity
        ELSE /\ Size2D(VSub(Velocity, C22_BranchVelocity)) <= C22_M - C22_Veer
             /\ Veer(Velocity, C22_Input) <= Max(C22_Veer, C22_M)

\* an air move whose input was cut short: the velocity along the input came
\* up to the air speed cap without passing it
C22_Witness ==
    /\ C22_WalkBranch
    /\ ~IsGroundMove
    /\ C22_Veer < C22_M
    /\ Velocity /= C22_BranchVelocity
    /\ Veer(Velocity, C22_Input) = AirSpeedCap

\* ------------------------------------------------------------------------
\* C23
\* ------------------------------------------------------------------------
\* the last CalcVelocity call ran in ladder mode
C23_LadderCall == calc.ticks > 0 /\ ~calc.skipped /\ bOnLadder /\ ~bCheatFlying

\* C23 as stated: in ladder mode the velocity after a CalcVelocity call is the
\* velocity before it, whatever the input, the friction and the braking window
C23_Original == C23_LadderCall => Velocity = calc.pre

\* C23 (amended): in ladder mode the input adds nothing; off the ground or
\* within the braking window the velocity after the call is the velocity
\* before it, and on the ground with the window elapsed the call only brakes:
\* the horizontal speed does not grow, and without input on a floor with
\* friction it shrinks unless ApplyVelocityBraking skips the velocity
C23_LadderBrakes ==
    C23_LadderCall =>
        IF IsMovingOnGround /\ bBrakingWindowElapsed
        THEN /\ SizeSquared2D(Velocity) <= SizeSquared2D(calc.pre)
             /\ (calc.acc = ZeroVector /\ calc.sf > 0 /\ ~BrakingSkipsVelocity(calc.pre))
                    => SizeSquared2D(Velocity) < SizeSquared2D(calc.pre)
        ELSE Velocity = calc.pre

\* a ladder call on the ground after the braking window, with input: the
\* velocity came out slower than it went in
C23_Witness ==
    /\ C23_LadderCall
    /\ IsMovingOnGround /\ bBrakingWindowElapsed
    /\ calc.acc /= ZeroVector
    /\ SizeSquared2D(Velocity) < SizeSquared2D(calc.pre)

\* ------------------------------------------------------------------------
\* C24
\* ------------------------------------------------------------------------
\* the duration configured for a crouch and for an uncrouch in the agent's
\* current situation
C24_CrouchDuration == IF IsWalking THEN CrouchTime ELSE cr.CrouchJumpTime
C24_UncrouchDuration == IF IsWalking THEN UncrouchTime ELSE UncrouchJumpTime

\* what a step of DeltaTime advances a transition of the given duration by,
\* with `left` of the transition still to go
C24_Advance(DeltaTime, Duration, left) ==
    IF Duration = 0 THEN left ELSE Min(DivT(AlphaOne * DeltaTime, Duration), left)

\* C24: a crouch or uncrouch step advances the transition by DeltaTime divided
\* by the duration configured for the agent's situation: CrouchTime grounded
\* and CrouchJumpTime airborne for a crouch, UncrouchTime grounded and
\* UncrouchJumpTime airborne for an uncrouch
C24_StepByConfiguredTime ==
    /\ (cr.ticks > 0 /\ cr.op1 = "crouch" /\ cr.op2 = "none") =>
            cr.h0 - CapsuleHalfHeight =
                C24_Advance(cr.dt, C24_CrouchDuration, cr.h0 - CrouchedHalfHeight)
    /\ (cr.ticks > 0 /\ cr.op1 = "uncrouch" /\ cr.op2 = "none") =>
            CapsuleHalfHeight - cr.h0 =
                C24_Advance(cr.dt, C24_UncrouchDuration, StandingHalfHeight - cr.h0)

\* ------------------------------------------------------------------------
\* Crouching while the movement mode changes: the fall ends in water
\* ------------------------------------------------------------------------
\* PhysFalling finds the character in water and starts swimming
StartSwimming ==
    /\ IsFalling
    /\ cr.started
    /\ MovementMode' = "Swimming"
    /\ UNCHANGED <<Velocity, brk, run, Acceleration, SurfaceFriction,
                   bBrakingWindowElapsed, bCheatFlying, bOnLadder, MaxStepHeight,
                   WalkableFloorZ, bIsSprinting, bWantsToWalk, bIsCrouched,
                   bCrouchFrameTolerated, calc, fall, restVars>>

SpecCrouchSwim == InitCrouch /\ [][SetWantsToCrouch \/ CrouchTick \/ StartSwimming]_vars

\* ------------------------------------------------------------------------
\* C25
\* ------------------------------------------------------------------------
\* C25: in a tick the UpdateCrouching call before the movement and the
\* uncrouch-only call after it never both change the capsule half height
C25_OneStepPerTick ==
    cr.ticks > 0 => ~(cr.h1 /= cr.h0 /\ CapsuleHalfHeight /= cr.h1)

\* ------------------------------------------------------------------------
\* IsValidLandingSpot with flat-base floor checks on and off
\* ------------------------------------------------------------------------
MaxSpotChecks == 2

\* the values of the constructor, the capsule standing or crouched
InitLandingSpot ==
    /\ \E v \in { Vec(6000, 0, 0), Vec(12000, 0, -1000) } : Velocity = v
    /\ brk = NoBrake
    /\ run = NoRun
    /\ InitCalcVars
    /\ \E c \in BOOLEAN :
          CapsuleHalfHeight = IF c THEN CrouchedHalfHeight ELSE StandingHalfHeight
    /\ LocationZ = HitLocationZ
    /\ bWantsToCrouch = FALSE
    /\ bIsInCrouchTransition = FALSE
    /\ bCrouchMaintainsBaseLocation = FALSE
    /\ cr = NoCrouchRun
    /\ \E flat \in BOOLEAN : land = [NoLand EXCEPT !.bUseFlatBaseForFloorChecks = flat]
    /\ BrakingWindowTimeElapsed = 0
    /\ bHasDeferredMovementMode = FALSE
    /\ DeferredMovementMode = "None"
    /\ bSimulatingPhysics = FALSE
    /\ tk = NoTick
    /\ WorldTime = 0
    /\ LastJumpBoostTime = 0
    /\ jp = NoJump
    /\ bPressedJump = FALSE
    /\ bDeferJumpStop = FALSE

\* one evaluation of IsValidLandingSpot: on a hit of LandingHits, a sweep
\* that hits nothing, a flat ledge or a ramp met above the lower hemisphere
\* of a standing capsule
LandingSpotCheck ==
    /\ land.n < MaxSpotChecks
    /\ \E hit \in LandingHits
                 \cup { LandingHit(FALSE, FALSE, FloorNormal, FloorNormal, HitLocationZ, 0, 0),
                        LandingHit(TRUE, FALSE, FloorNormal, FloorNormal, HitLocationZ,
                                   700000, 0),
                        LandingHit(TRUE, FALSE, RampNormal, RampNormal, HitLocationZ,
                                   700000, 0) },
          floorWalkable \in BOOLEAN, ds \in {100, 500} :
            land' = [land EXCEPT !.n = @ + 1,
                                 !.cur = [hit |-> hit,
                                          size |-> <<CapsuleRadius, CapsuleHalfHeight>>,
                                          floor |-> floorWalkable, ds |-> ds,
                                          vel |-> Velocity, wfz |-> WalkableFloorZ,
                                          sf |-> SurfaceFriction,
                                          result |-> IsValidLandingSpot(hit, floorWalkable,
                                                                        ds)]]
    /\ UNCHANGED <<Velocity, brk, run, calcVars, crouchVars, tickVars, jumpVars>>

SpecLandingSpot == InitLandingSpot /\ [][LandingSpotCheck]_vars

\* ------------------------------------------------------------------------
\* C26
\* ------------------------------------------------------------------------
\* the impact point of the last hit checked lies above the base box of the
\* capsule (flat-base mode) or on or above its lower hemisphere
C26_AboveBase ==
    IF land.bUseFlatBaseForFloorChecks
    THEN land.cur.hit.ImpactPointZ
            > land.cur.hit.LocationZ - land.cur.size[2] + MAX_FLOOR_DIST
    ELSE land.cur.hit.ImpactPointZ
            >= land.cur.hit.LocationZ - land.cur.size[2] + land.cur.size[1]

C27_Requested == IF bCheatFlying THEN "Flying" ELSE "Walking"

\* C27: a TickComponent that finds a deferred movement mode pending applies
\* the mode requested last, Flying for noclip on and Walking for noclip off,
\* and clears the pending flag; a tick that finds none pending leaves the
\* mode its movement ended in
C27_DeferredModeOnce ==
    tk.fresh =>
        /\ ~bHasDeferredMovementMode
        /\ tk.pending => MovementMode = C27_Requested
                         /\ MovementMode = DeferredMovementMode
        /\ ~tk.pending => MovementMode = tk.moved

\* noclip was switched off and a tick applied Walking; a later tick, with
\* nothing pending, left the character falling
C27_Witness ==
    /\ tk.fresh /\ tk.n >= 2
    /\ ~tk.pending
    /\ DeferredMovementMode = "Walking"
    /\ MovementMode = "Falling"

\* ------------------------------------------------------------------------
\* The jump input of APBPlayerCharacter: Jump, StopJumping, ClearJumpInput
\* and Tick
\* ------------------------------------------------------------------------
MaxJumpInputs == 4

\* on the ground or in the air, in noclip or not; jp.autohop tells whether
\* move.Pogo is on or bAutoBunnyhop is set
InitJumpInput ==
    /\ Velocity = ZeroVector
    /\ brk = NoBrake
    /\ run = NoRun
    /\ Acceleration = ZeroVector
    /\ SurfaceFriction = FricScale
    /\ MovementMode \in {"Walking", "Falling"}
    /\ bBrakingWindowElapsed = TRUE
    /\ bCheatFlying \in BOOLEAN
    /\ bOnLadder = FALSE
    /\ MaxStepHeight = DefaultStepHeight
    /\ WalkableFloorZ = DefaultWalkableFloorZ
    /\ bIsSprinting = FALSE
    /\ bWantsToWalk = FALSE
    /\ bIsCrouched = FALSE
    /\ bCrouchFrameTolerated = FALSE
    /\ calc = NoCalc
    /\ fall = NoFall
    /\ CapsuleHalfHeight = StandingHalfHeight
    /\ LocationZ = StandingHalfHeight + MIN_FLOOR_DIST
    /\ bWantsToCrouch = FALSE
    /\ bIsInCrouchTransition = FALSE
    /\ bCrouchMaintainsBaseLocation = TRUE
    /\ cr = NoCrouchRun
    /\ land = NoLand
    /\ BrakingWindowTimeElapsed = 0
    /\ bHasDeferredMovementMode = FALSE
    /\ DeferredMovementMode = "None"
    /\ bSimulatingPhysics = FALSE
    /\ tk = NoTick
    /\ WorldTime = 0
    /\ LastJumpBoostTime = 0
    /\ \E autohop \in BOOLEAN : jp = [NoJump EXCEPT !.autohop = autohop]
    /\ bPressedJump = FALSE
    /\ bDeferJumpStop = FALSE

jumpInputFixed == <<Velocity, brk, run, Acceleration, SurfaceFriction,
                    bBrakingWindowElapsed, bCheatFlying, bOnLadder, MaxStepHeight,
                    WalkableFloorZ, bIsSprinting, bWantsToWalk, bIsCrouched,
                    bCrouchFrameTolerated, calc, fall, crouchVars, land, tickVars,
                    WorldTime, LastJumpBoostTime>>

\* what a call leaves in jp: its name, the stop-jumpings it performed, and
\* bPressedJump, bDeferJumpStop and IsFalling() as it found them
JumpInputCall(op, stops, ignored) ==
    [jp EXCEPT !.op = op, !.n = @ + 1, !.stops = stops, !.pressed = bPressedJump,
               !.deferred = bDeferJumpStop, !.falling = IsFalling,
               !.ignored = ignored]

\* Jump(): ACharacter::Jump sets bPressedJump
Jump ==
    /\ jp.n < MaxJumpInputs
    /\ bDeferJumpStop' = (IsFalling \/ bDeferJumpStop)
    /\ bPressedJump' = TRUE
    /\ jp' = JumpInputCall("Jump", 0, FALSE)
    /\ UNCHANGED <<jumpInputFixed, MovementMode>>

\* StopJumping that stops the jump whether or not the stop is deferred
StopJumping_NoDefer ==
    /\ jp.n < MaxJumpInputs
    /\ bPressedJump' = FALSE
    /\ jp' = JumpInputCall("StopJumping", 1, jp.ignored)
    /\ UNCHANGED <<jumpInputFixed, MovementMode, bDeferJumpStop>>

\* StopJumping(): ACharacter::StopJumping clears bPressedJump
StopJumping ==
    /\ jp.n < MaxJumpInputs
    /\ bPressedJump' = IF bDeferJumpStop THEN bPressedJump ELSE FALSE
    /\ jp' = JumpInputCall("StopJumping", IF bDeferJumpStop THEN 0 ELSE 1,
                           jp.ignored \/ bDeferJumpStop)
    /\ UNCHANGED <<jumpInputFixed, MovementMode, bDeferJumpStop>>

\* ClearJumpInput(DeltaTime), called by the movement of a tick; with the
\* JumpMaxHoldTime of 0 that ACharacter is constructed with,
\* ACharacter::ClearJumpInput clears bPressedJump
ClearJumpInput ==
    /\ jp.n < MaxJumpInputs
    /\ bPressedJump' = IF jp.autohop \/ bCheatFlying \/ bDeferJumpStop
                       THEN bPressedJump ELSE FALSE
    /\ jp' = JumpInputCall("ClearJumpInput", 0, jp.ignored)
    /\ UNCHANGED <<jumpInputFixed, MovementMode, bDeferJumpStop>>

\* Tick(DeltaTime) of the character
Tick ==
    /\ jp.n < MaxJumpInputs
    /\ bDeferJumpStop' = FALSE
    /\ bPressedJump' = IF bDeferJumpStop THEN FALSE ELSE bPressedJump
    /\ jp' = JumpInputCall("Tick", IF bDeferJumpStop THEN 1 ELSE 0, jp.ignored)
    /\ UNCHANGED <<jumpInputFixed, MovementMode>>

\* the movement lands the character or takes it off the ground
OnMovementModeChanged ==
    /\ MovementMode' = IF IsFalling THEN "Walking" ELSE "Falling"
    /\ UNCHANGED <<jumpInputFixed, jumpVars>>

SpecJumpInput ==
    InitJumpInput /\ [][Jump \/ StopJumping \/ ClearJumpInput \/ Tick
                        \/ OnMovementModeChanged]_vars

\* ------------------------------------------------------------------------
\* C28
\* ------------------------------------------------------------------------
\* C28: a Jump() made while falling defers the stop; while it is deferred
\* StopJumping() stops nothing and neither it nor ClearJumpInput clears the
\* jump input, and the next Tick stops the jump exactly once and ends the
\* deferral, whether or not StopJumping() was called in between
C28_DeferredJumpStop ==
    /\ (jp.op = "Jump" /\ jp.falling) => bDeferJumpStop /\ bPressedJump
    /\ bDeferJumpStop => bPressedJump
    /\ (jp.op = "StopJumping" /\ jp.deferred) =>
            jp.stops = 0 /\ bPressedJump /\ bDeferJumpStop
    /\ (jp.op = "ClearJumpInput" /\ jp.deferred) => bPressedJump /\ bDeferJumpStop
    /\ (jp.op = "Tick" /\ jp.deferred) =>
            jp.stops = 1 /\ ~bPressedJump /\ ~bDeferJumpStop
    /\ (jp.op = "Tick" /\ ~jp.deferred) => jp.stops = 0

\* the Tick after a Jump() made in the air stopped the jump once, a
\* StopJumping() having been ignored in between
C28_Witness ==
    /\ jp.op = "Tick" /\ jp.deferred /\ jp.ignored
    /\ jp.stops = 1
    /\ ~bPressedJump /\ ~bDeferJumpStop

\* ------------------------------------------------------------------------
\* C29
\* ------------------------------------------------------------------------
\* the last TickComponent ended on the ground, after a landing
C29_OnGroundSinceLanding == tk.fresh /\ IsMovingOnGround /\ tk.sinceLanding >= 0

\* the braking window is elapsed exactly when the tick times since landing
\* have reached BrakingWindow, and then its elapsed time is 0
C29_ElapsedByTime ==
    /\ bBrakingWindowElapsed <=> tk.sinceLanding >= BrakingWindow
    /\ bBrakingWindowElapsed => BrakingWindowTimeElapsed = 0

\* C29 as stated: over consecutive ticks that end on the ground the braking
\* window becomes elapsed at the end of the first tick at which the tick
\* times since landing reach BrakingWindow, and stays elapsed with an
\* elapsed time of 0 on the later ones
C29_Original == C29_OnGroundSinceLanding => C29_ElapsedByTime

\* C29 (amended): the same over ticks in which UpdatedComponent is not
\* simulating physics; until the window is elapsed BrakingWindowTimeElapsed
\* is the tick time since landing
C29_WindowElapses ==
    (C29_OnGroundSinceLanding /\ ~tk.ragdoll) =>
        /\ C29_ElapsedByTime
        /\ ~bBrakingWindowElapsed => BrakingWindowTimeElapsed = tk.sinceLanding

\* the tick at which the tick times since landing reached BrakingWindow: the
\* window was open before it and is elapsed after it
C29_Witness ==
    /\ C29_OnGroundSinceLanding /\ ~tk.ragdoll
    /\ ~tk.flag /\ tk.elapsed > 0
    /\ tk.elapsed + tk.dt >= BrakingWindow
    /\ bBrakingWindowElapsed /\ BrakingWindowTimeElapsed = 0


\* ------------------------------------------------------------------------
\* C30: after any sequence of crouch requests and ticks, blocked or not, the
\* capsule half height lies between the crouched and the standing half
\* height, and bIsCrouched is set only while the capsule half height is the
\* crouched half height
\* ------------------------------------------------------------------------
C30_HalfHeightInRange ==
    /\ CrouchedHalfHeight <= CapsuleHalfHeight
    /\ CapsuleHalfHeight <= StandingHalfHeight
    /\ bIsCrouched => CapsuleHalfHeight = CrouchedHalfHeight

\* a tick left the capsule part of the way up from a full crouch
C30_Witness ==
    /\ cr.reached /\ cr.steps > 0
    /\ cr.h0 < CapsuleHalfHeight
    /\ CrouchedHalfHeight < CapsuleHalfHeight
    /\ CapsuleHalfHeight < StandingHalfHeight
    /\ ~bIsCrouched
=========================================================================
